---- MODULE Spec2Model ----
(***************************************************************************)
(* A model of the AIvilization orchestration core: the sandbox manager's   *)
(* confined file operations, the tool registry, and the agents' decision   *)
(* loop with delegation, broadcast and the session budget.                 *)
(*                                                                         *)
(* The specifications share the variables:                                 *)
(*   SpecSandbox   the file operations of SandboxManager                   *)
(*   SpecRegistry  ToolRegistry.register / update / delete                 *)
(*   SpecExecute   ToolRegistry.execute with the execution log             *)
(*   Spec          Agent.process_message with its tool calls               *)
(*   SpecAgents    the create_agent tool and the creation graph            *)
(*   SpecMemory    AgentMemory: conversation turns and episodic memories   *)
(*   SpecBroadcast the form_alliance and broadcast tools                   *)
(*   SpecSkeleton  ToolificationEngine._extract_skeleton                   *)
(*   SpecPatterns  ToolificationEngine._detect_code_patterns               *)
(*   SpecPersistence  Civilization.save and load                           *)
(*   SpecScope        ToolRegistry.execute of private and shared tools     *)
(*   SpecConversation one process_message and its messages list            *)
(*   SpecTools        create_tool, edit_tool, delete_tool and the tool list*)
(*   SpecContainers   SandboxManager's containers, snapshot and restore    *)
(*   SpecSnapshots    the same for ids that differ in their first 12       *)
(*   SpecWatchdog     exec_python / exec_shell and the timeout watchdog    *)
(*   SpecEvents       EventBus: emit, subscriptions and the queries        *)
(*   SpecAlliances    create_agent and form_alliance with their events     *)
(*   SpecSequences    ToolificationEngine._detect_sequence_patterns        *)
(*   SpecNames        the registry given names of any spelling             *)
(***************************************************************************)
EXTENDS Integers, Sequences, FiniteSets, TLC

VARIABLES
    files,            \* sandbox: container filesystem, resolved path -> content
    sbox,             \* sandbox: the last file operation and its outcome
    tools,            \* registry: _tools, id -> ToolDefinition
    tools_by_name,    \* registry: _tools_by_name, name -> id (an alias of the object)
    handlers,         \* registry: _handlers, name -> handler
    nextId,           \* registry: the next fresh tool id (uuid4 in the code)
    reg,              \* registry: the last registry call and its outcome
    execution_log,    \* registry: _execution_log
    stack,            \* loop: the process_message calls in flight
    chain,            \* loop: agent -> _delegation_chain
    status,           \* loop: agent -> state.status
    total_input_tokens,   \* client: cumulative input tokens
    total_output_tokens,  \* client: cumulative output tokens
    total_api_calls,      \* client: calls the gateway answered
    last,             \* loop: the last step of the loop and its outcome
    agent_states,     \* civilization: id -> AgentState (depth, created_by, ...)
    creation_graph,   \* civilization: creator id -> ids of the agents it created
    civ,              \* civilization: the last create_agent call and its outcome
    conversation_history,    \* memory: the turns kept, oldest first
    max_conversation_turns,  \* memory: the configured window
    episodic_memories,       \* memory: the episodic memories kept
    max_episodic_memories,   \* memory: the configured capacity
    mem,              \* memory: the last memory call, its input and what it dropped
    alliances,        \* civilization: _alliances in the order of their creation
    broadcasts,       \* the execute_broadcast calls in flight, the innermost last
    bc,               \* the last finished execute_broadcast / execute_form_alliance
    sk,               \* toolification: the last pair of payloads and their skeletons
    analysis,         \* toolification: the last _detect_code_patterns call and its result
    role,             \* civilization: agent id -> state.role
    knowledge,        \* civilization: agent id -> state.memory.knowledge
    persist,          \* civilization: the save/load round trips made
    messages,         \* conversation: the messages list of the process_message in flight
    loop,             \* conversation: where that process_message is, and what it returned
    tool_ids,         \* agents: agent -> state.tool_ids
    offered,          \* agents: the tool list the last create_message was given
    daemon,           \* docker: container name -> the container (id, status, state)
    images,           \* docker: image tag -> the state committed under it
    containers,       \* sandbox manager: _containers, agent id -> container id
    nextContainer,    \* docker: the id of the next container run
    snapshots,        \* sandbox manager: every snapshot call that returned, with the state it saw
    sm,               \* sandbox manager: the last container operation and its outcome
    run,              \* sandbox manager: the exec_python / exec_shell call in progress
    history,          \* event bus: _history
    max_history,      \* event bus: _max_history
    event_handlers,   \* event bus: _handlers, event type -> the handlers subscribed
    evt,              \* event bus: the last call, what its handlers saw and what it returned
    alliance_input             \* alliances: the caller and the ids of the last form_alliance

sandboxVars  == <<files, sbox>>
registryRest == <<tools_by_name, handlers, nextId, reg>>
registryVars == <<tools, registryRest>>
logVars      == <<execution_log>>
loopVars     == <<stack, chain, status, total_input_tokens, total_output_tokens,
                  total_api_calls, last>>
civVars      == <<agent_states, creation_graph, civ>>
memoryVars   == <<conversation_history, max_conversation_turns, episodic_memories,
                  max_episodic_memories, mem>>
allianceVars == <<alliances, broadcasts, bc>>
toolificationVars == <<sk, analysis>>
persistVars  == <<role, knowledge, persist>>
convVars     == <<messages, loop>>
toolVars     == <<tool_ids, offered>>
containerVars == <<daemon, images, containers, nextContainer, snapshots, sm>>
eventVars    == <<history, max_history, event_handlers, evt>>
moreVars     == <<containerVars, run, eventVars, alliance_input>>
extVars      == <<persistVars, convVars, toolVars, moreVars>>
restVars     == <<civVars, memoryVars, allianceVars, toolificationVars, extVars>>

----------------------------------------------------------------------------
(* Strings. A path is a sequence of tokens; the string it stands for is    *)
(* the concatenation of the tokens. "workspace" followed by "x" is the     *)
(* name "workspacex", which shares a prefix with the root's name.          *)

MaxPathLen == 3

PathTokens == {"/", "workspace", "..", "x"}

RECURSIVE SeqsUpTo(_, _)
SeqsUpTo(S, n) ==
    IF n = 0 THEN {<<>>}
    ELSE LET shorter == SeqsUpTo(S, n - 1)
         IN  shorter \cup {Append(s, t) : s \in {q \in shorter : Len(q) = n - 1}, t \in S}

Paths == SeqsUpTo(PathTokens, MaxPathLen)

\* str.startswith
StartsWith(s, prefix) ==
    /\ Len(s) >= Len(prefix)
    /\ SubSeq(s, 1, Len(prefix)) = prefix

\* str.split("/"): the components between the slashes, empty ones included.
RECURSIVE SplitSlash(_)
SplitSlash(s) ==
    IF \A i \in 1..Len(s) : s[i] # "/" THEN <<s>>
    ELSE LET k == CHOOSE i \in 1..Len(s) :
                      s[i] = "/" /\ \A j \in 1..(i - 1) : s[j] # "/"
         IN  <<SubSeq(s, 1, k - 1)>> \o SplitSlash(SubSeq(s, k + 1, Len(s)))

\* The location an absolute path names inside the container: the kernel's
\* resolution, which drops empty components and steps up on "..".
RECURSIVE ResolveFrom(_, _)
ResolveFrom(dir, cs) ==
    IF Len(cs) = 0 THEN dir
    ELSE LET c == cs[1]
             next == IF c = <<>> THEN dir
                     ELSE IF c = <<"..">>
                          THEN (IF Len(dir) = 0 THEN dir ELSE SubSeq(dir, 1, Len(dir) - 1))
                          ELSE Append(dir, c)
         IN  ResolveFrom(next, Tail(cs))

Resolve(p) == ResolveFrom(<<>>, SplitSlash(p))

WorkspaceRoot == << <<"workspace">> >>

\* A location is inside the root when it is the root or below it.
InsideRoot(loc) == StartsWith(loc, WorkspaceRoot)

WorkspacePrefix == <<"/", "workspace">>

----------------------------------------------------------------------------
(* SandboxManager: read_file, write_file, list_files.                      *)

MaxFiles == 2

Contents == {"c1"}

\* A file of the container image outside /workspace, such as /etc/passwd.
OutsideFile == << <<"x">> >>

NoSandboxOp ==
    [op |-> "none", path |-> <<>>, inside |-> TRUE, result |-> "none", touched |-> {},
     data |-> "none"]

InitSandbox ==
    /\ files = [loc \in {OutsideFile} |-> "secret"]
    /\ sbox = NoSandboxOp

\* Whether a path, a relative one taken from the root, names a location
\* inside the root.
PathInsideRoot(path) ==
    InsideRoot(Resolve(IF StartsWith(path, <<"/">>) THEN path
                       ELSE <<"/", "workspace", "/">> \o path))

\* The record of a file operation: what was asked, what came of it, and
\* the files it read, wrote or listed.
Outcome(op, path, result, touched, data) ==
    [op |-> op, path |-> path, inside |-> PathInsideRoot(path), result |-> result,
     touched |-> touched, data |-> data]

\* A location some file lies at or below.
FilesUnder(loc) == {f \in DOMAIN files : StartsWith(f, loc)}

\* read_file and write_file: a relative path is taken below /workspace, and
\* the path must then start with the text "/workspace".
QualifiedPath(path) ==
    IF ~StartsWith(path, <<"/">>) THEN <<"/", "workspace", "/">> \o path ELSE path

PathCheckPasses(p) == StartsWith(p, WorkspacePrefix)

ReadFile(path) ==
    LET p == QualifiedPath(path)
        loc == Resolve(p)
    IN  /\ UNCHANGED files
        /\ IF ~PathCheckPasses(p)
           THEN sbox' = Outcome("read", path, "PermissionError", {}, "none")
           ELSE IF loc \in DOMAIN files
                THEN sbox' = Outcome("read", path, "ok", {loc}, files[loc])
                ELSE sbox' = Outcome("read", path, "FileNotFoundError", {}, "none")

\* _write_to_container: the archive holds one member, the last component of
\* the path, and is unpacked in the directory the rest of the path names.
WriteTarget(p) ==
    LET parts == SplitSlash(p)
        filename == parts[Len(parts)]
        dest_dir == SubSeq(parts, 1, Len(parts) - 1)
    IN  [dir |-> ResolveFrom(<<>>, dest_dir), filename |-> filename]

\* The member is a file the container can hold: a proper name, no file on
\* the way to it, and no directory in its place.
Writable(t) ==
    /\ t.filename \notin {<<>>, <<"..">>}
    /\ \A k \in 1..Len(t.dir) : SubSeq(t.dir, 1, k) \notin DOMAIN files
    /\ \A f \in DOMAIN files :
           f # Append(t.dir, t.filename) => ~StartsWith(f, Append(t.dir, t.filename))

WriteFile(path, content) ==
    LET p == QualifiedPath(path)
        t == WriteTarget(p)
        loc == Append(t.dir, t.filename)
    IN  IF ~PathCheckPasses(p)
        THEN /\ sbox' = Outcome("write", path, "PermissionError", {}, "none")
             /\ UNCHANGED files
        ELSE IF ~Writable(t)
             THEN /\ sbox' = Outcome("write", path, "DockerError", {}, "none")
                  /\ UNCHANGED files
             ELSE /\ loc \in DOMAIN files \/ Cardinality(DOMAIN files) < MaxFiles
                  /\ files' = [f \in DOMAIN files \cup {loc} |->
                                  IF f = loc THEN content ELSE files[f]]
                  /\ sbox' = Outcome("write", path, "ok", {loc}, content)

\* list_files: a path that does not start with "/workspace" is taken below
\* it; nothing is rejected. find prints every file at or below the path.
ListPath(path) ==
    IF ~StartsWith(path, WorkspacePrefix)
    THEN (IF path # <<>> THEN <<"/", "workspace", "/">> \o path ELSE WorkspacePrefix)
    ELSE path

ListFiles(path) ==
    /\ UNCHANGED files
    /\ sbox' = Outcome("list", path, "ok", FilesUnder(Resolve(ListPath(path))), "none")



----------------------------------------------------------------------------
(* ToolRegistry: register, update, delete.                                 *)

MaxCustomTools == 2
MaxVersion == 2

Agents == {"a1", "a2"}

\* Built-in tools, registered at construction under ids 1..Len(BuiltinNames).
\* The registry treats every built-in alike; three of the ten are kept.
BuiltinNames == <<"delegate_task", "broadcast", "sandbox">>

BuiltinIds == 1..Len(BuiltinNames)

\* Tool ids are fresh (uuid4); the model hands out consecutive numbers.
MaxToolId == Len(BuiltinNames) + MaxCustomTools

\* The names custom tools are registered under or renamed to: two free
\* names and the name of a built-in.
ToolNames == {"t1", "t2", "sandbox"}

\* names of any spelling: one that matches ^[a-zA-Z0-9_-]{1,64}$, the empty
\* name and one with a space in it
AnyNames == {"t1", "", "a b"}

Truthy(s) == s \notin {"none", ""}

Put(f, k, v) == [x \in DOMAIN f \cup {k} |-> IF x = k THEN v ELSE f[x]]

Remove(f, k) == [x \in DOMAIN f \ {k} |-> f[x]]

\* What a call aims at, as its requester sees it: a new definition, a
\* missing id, a built-in, a shared tool, the requester's own private tool
\* or another agent's.
TargetKind(id, requester) ==
    IF id \notin DOMAIN tools THEN "missing"
    ELSE IF tools[id].scope = "private"
         THEN (IF tools[id].created_by_agent_id = requester THEN "own" ELSE "other")
         ELSE tools[id].scope

NoRegistryOp == [op |-> "none", target |-> "none", result |-> "none"]

\* _register_builtins
InitRegistry ==
    /\ tools = [i \in BuiltinIds |->
                   [name |-> BuiltinNames[i], description |-> "d0", input_schema |-> "s0",
                    scope |-> "builtin", created_by_agent_id |-> "none",
                    source_code |-> "none", version |-> 1, usage_count |-> 0]]
    /\ tools_by_name = [n \in {BuiltinNames[i] : i \in BuiltinIds} |->
                           CHOOSE i \in BuiltinIds : BuiltinNames[i] = n]
    /\ handlers = [n \in {BuiltinNames[i] : i \in BuiltinIds} |->
                      [kind |-> "builtin",
                       tool |-> CHOOSE i \in BuiltinIds : BuiltinNames[i] = n]]
    /\ nextId = Len(BuiltinNames) + 1
    /\ reg = NoRegistryOp
    /\ execution_log = <<>>

\* _make_custom_handler: a closure over the definition object.
CustomHandler(id) == [kind |-> "custom", tool |-> id]

\* register: a duplicate name is refused; a definition with source code
\* gets a sandbox-backed handler.
Register(name, scope, owner, source) ==
    LET id == nextId
        tool_def == [name |-> name, description |-> "d0", input_schema |-> "s0",
                     scope |-> scope, created_by_agent_id |-> owner,
                     source_code |-> source, version |-> 1, usage_count |-> 0]
    IN  /\ nextId <= MaxToolId
        /\ IF name \in DOMAIN tools_by_name
           THEN /\ reg' = [op |-> "register", target |-> "new",
                           result |-> "ValueError"]
                /\ UNCHANGED <<tools, tools_by_name, handlers, nextId>>
           ELSE /\ tools' = Put(tools, id, tool_def)
                /\ tools_by_name' = Put(tools_by_name, name, id)
                /\ handlers' = IF Truthy(source)
                               THEN Put(handlers, name, CustomHandler(id))
                               ELSE handlers
                /\ nextId' = nextId + 1
                /\ reg' = [op |-> "register", target |-> "new",
                           result |-> "ok"]

\* The field changes execute_edit_tool builds: any of name, description,
\* input_schema, source_code. description and input_schema are plain
\* data and are left out of the changes tried.
UpdateValues ==
    [name |-> ToolNames, source_code |-> {"", "c1"}]

UpdateSets ==
    UNION {[keys -> UNION {UpdateValues[k] : k \in keys}] : keys \in SUBSET DOMAIN UpdateValues}

Updates == {u \in UpdateSets : \A k \in DOMAIN u : u[k] \in UpdateValues[k]}

\* setattr for every key the definition has.
ApplyUpdates(tool, updates) ==
    [f \in DOMAIN tool |-> IF f \in DOMAIN updates THEN updates[f] ELSE tool[f]]

UpdateRefusalBuiltinEditable(tool, requester) ==
    IF tool.scope = "private" /\ tool.created_by_agent_id # requester
    THEN "PermissionError"
    ELSE "ok"

\* The permission checks of update: a built-in is never edited, a private
\* tool only by its creator.
UpdateRefusal(tool, requester) ==
    IF tool.scope = "builtin" THEN "PermissionError"
    ELSE IF tool.scope = "private" /\ tool.created_by_agent_id # requester
         THEN "PermissionError"
         ELSE "ok"

\* update: apply the changes, count the version, move the name index and
\* the handler when the name changed, rebuild the handler when the source
\* code changed. `del self._tools_by_name[old_name]` raises KeyError when
\* the index holds no entry for the old name; the changes made so far stay.
Update(id, updates, requester) ==
    IF id \notin DOMAIN tools
    THEN /\ reg' = [op |-> "update", target |-> TargetKind(id, requester),
                    result |-> "ValueError"]
         /\ UNCHANGED <<tools, tools_by_name, handlers, nextId>>
    ELSE LET tool == tools[id]
             old_name == tool.name
             changed == [ApplyUpdates(tool, updates) EXCEPT !.version = tool.version + 1]
             renamed == "name" \in DOMAIN updates /\ updates["name"] # old_name
             index1 == IF renamed
                       THEN Put(Remove(tools_by_name, old_name), changed.name, id)
                       ELSE tools_by_name
             handlers1 == IF renamed /\ old_name \in DOMAIN handlers
                          THEN Put(Remove(handlers, old_name), changed.name, handlers[old_name])
                          ELSE handlers
             handlers2 == IF "source_code" \in DOMAIN updates /\ Truthy(changed.source_code)
                          THEN Put(handlers1, changed.name, CustomHandler(id))
                          ELSE handlers1
         IN  IF UpdateRefusal(tool, requester) # "ok"
             THEN /\ reg' = [op |-> "update", target |-> TargetKind(id, requester),
                             result |-> UpdateRefusal(tool, requester)]
                  /\ UNCHANGED <<tools, tools_by_name, handlers, nextId>>
             ELSE /\ tool.version < MaxVersion
                  /\ tools' = [tools EXCEPT ![id] = changed]
                  /\ UNCHANGED nextId
                  /\ IF renamed /\ old_name \notin DOMAIN tools_by_name
                     THEN /\ reg' = [op |-> "update", target |-> TargetKind(id, requester),
                                     result |-> "KeyError"]
                          /\ UNCHANGED <<tools_by_name, handlers>>
                     ELSE /\ tools_by_name' = index1
                          /\ handlers' = handlers2
                          /\ reg' = [op |-> "update", target |-> TargetKind(id, requester),
                                     result |-> "ok"]

\* The permission checks of delete.
DeleteRefusal(tool, requester) ==
    IF tool.scope = "builtin" THEN "PermissionError"
    ELSE IF tool.scope = "private" /\ tool.created_by_agent_id # requester
         THEN "PermissionError"
         ELSE "ok"

\* delete: remove the definition, then the name index entry (KeyError when
\* there is none, the definition staying removed), then the handler.
Delete(id, requester) ==
    IF id \notin DOMAIN tools
    THEN /\ reg' = [op |-> "delete", target |-> TargetKind(id, requester),
                    result |-> "ValueError"]
         /\ UNCHANGED <<tools, tools_by_name, handlers, nextId>>
    ELSE LET tool == tools[id]
             name == tool.name
         IN  IF DeleteRefusal(tool, requester) # "ok"
             THEN /\ reg' = [op |-> "delete", target |-> TargetKind(id, requester),
                             result |-> DeleteRefusal(tool, requester)]
                  /\ UNCHANGED <<tools, tools_by_name, handlers, nextId>>
             ELSE /\ tools' = Remove(tools, id)
                  /\ UNCHANGED nextId
                  /\ IF name \notin DOMAIN tools_by_name
                     THEN /\ reg' = [op |-> "delete", target |-> TargetKind(id, requester),
                                     result |-> "KeyError"]
                          /\ UNCHANGED <<tools_by_name, handlers>>
                     ELSE /\ tools_by_name' = Remove(tools_by_name, name)
                          /\ handlers' = Remove(handlers, name)
                          /\ reg' = [op |-> "delete", target |-> TargetKind(id, requester),
                                     result |-> "ok"]


\* registry.execute after the handler ran: the tool's usage count.
Executed(tool_name) ==
    IF tool_name \in DOMAIN tools_by_name /\ tools_by_name[tool_name] \in DOMAIN tools
    THEN [tools EXCEPT ![tools_by_name[tool_name]].usage_count = @ + 1]
    ELSE tools

MaxLog == 2

\* The tool names execute is called with, by one agent or another.
ExecNames == {"t1", "sandbox"}

\* tool_input: the action and the code of a sandbox call ("none" and the
\* empty text for a key the input does not have)
ToolInput(action, code) == [action |-> action, code |-> code]

NoInput == ToolInput("none", <<>>)

\* ToolExecutionRecord; the output and the times are plain data.
Record(tool_name, agent_id, input_params, success) ==
    [tool_name |-> tool_name, agent_id |-> agent_id, input_params |-> input_params,
     success |-> success]

\* execute: a name without a handler is refused; otherwise the handler
\* runs, returns or raises, the call is recorded and counted, and what
\* the handler raised is raised again.
Execute(tool_name, agent_id, tool_input, raised) ==
    IF tool_name \notin DOMAIN handlers
    THEN /\ reg' = [op |-> "execute", target |-> tool_name, result |-> "ValueError"]
         /\ UNCHANGED <<tools, tools_by_name, handlers, nextId, execution_log>>
    ELSE /\ execution_log' =
                Append(execution_log, Record(tool_name, agent_id, tool_input, ~raised))
         /\ tools' = Executed(tool_name)
         /\ reg' = [op |-> "execute", target |-> tool_name,
                    result |-> IF raised THEN "RuntimeError" ELSE "ok"]
         /\ UNCHANGED <<tools_by_name, handlers, nextId>>

----------------------------------------------------------------------------
(* ClaudeClient: the usage counters and the session budget. Money is       *)
(* counted in micro-dollars, and the estimate in units of 0.0001 dollar,   *)
(* the four decimals _estimate_cost rounds to.                             *)

\* config.max_cost_per_session_usd, in units of 0.0001 dollar.
max_cost_per_session_usd == 3

\* Dollars per million tokens, that is micro-dollars per token.
InputRate == 3
OutputRate == 15
\* Micro-dollars in 0.0001 dollar.
MicroPerUnit == 100

\* response.usage of the responses the gateway gives. No sum of these
\* lies halfway between two units.
InputTokens == {10}
OutputTokens == {6, 18}

\* round(x, 4): the nearest unit, the even one of two equally near.
RoundUnits(micro) ==
    LET q == micro \div MicroPerUnit
        r == micro % MicroPerUnit
    IN  IF 2 * r < MicroPerUnit THEN q
        ELSE IF 2 * r > MicroPerUnit THEN q + 1
        ELSE IF q % 2 = 0 THEN q ELSE q + 1

EstimateCost(input_tokens, output_tokens) ==
    RoundUnits(input_tokens * InputRate + output_tokens * OutputRate)

\* create_message: the budget check before the call.
BudgetExceededStrict(cost, ceiling) == ceiling > 0 /\ cost > ceiling

BudgetExceeded(cost, ceiling) == ceiling > 0 /\ cost >= ceiling

----------------------------------------------------------------------------
(* Agent.process_message and the tool calls it makes. The call stack is a  *)
(* sequence of frames, one per process_message in flight, the innermost    *)
(* last. A frame is at "think" before a create_message, at "tools" while   *)
(* tool_use blocks of the response are pending, at "exit" once the loop    *)
(* is over, and at "raising" while an exception leaves it.                 *)

MaxDepth == 3
MaxBlocks == 2
max_loop_iterations == 2

\* civilization.get_all_agents(): the agents in the order of their creation.
AgentOrder == <<"a1", "a2">>

StopReasons == {"tool_use", "end_turn"}

\* The tool names a tool_use block can carry; "t1" has no handler here.
CallNames == {"delegate_task", "broadcast", "sandbox", "t1"}

\* input["agent_id"] of a delegate_task call: an agent, an id of no agent,
\* or no such key.
DelegateTargets == Agents \cup {"ghost", "missing"}

Frame(agent, via) ==
    [agent |-> agent, via |-> via, pc |-> "think", iteration |-> 0,
     pending |-> 0, tool_results |-> <<>>, turn |-> <<>>,
     all_tool_use |-> TRUE, targets |-> <<>>]

Event(ev, agent, target, result) ==
    [ev |-> ev, agent |-> agent, target |-> target, result |-> result]

InitLoop ==
    /\ stack = <<>>
    /\ chain = [a \in Agents |-> <<>>]
    /\ status = [a \in Agents |-> "idle"]
    /\ total_input_tokens = 0
    /\ total_output_tokens = 0
    /\ total_api_calls = 0
    /\ last = Event("none", "none", "none", "none")

Top == stack[Len(stack)]
Below == SubSeq(stack, 1, Len(stack) - 1)

\* process_message, called by the shell on an agent while nothing runs.
ProcessMessage(agent) ==
    /\ stack = <<>>
    /\ stack' = <<Frame(agent, "top")>>
    /\ last' = Event("start", agent, "top", "none")
    /\ UNCHANGED <<chain, status, total_input_tokens, total_output_tokens,
                   total_api_calls, tools>>

\* The end of an iteration: the tool results join the conversation, and
\* the loop goes on while iterations are left.
NextIterationNoCap(f) ==
    [f EXCEPT !.pc = "think", !.turn = f.tool_results, !.tool_results = <<>>]

NextIteration(f) ==
    [f EXCEPT !.pc = IF f.iteration < max_loop_iterations THEN "think" ELSE "exit",
              !.turn = f.tool_results, !.tool_results = <<>>]

\* The loop after a response: a response that does not stop for tool use
\* ends it; otherwise its tool_use blocks are executed in order, and with
\* none of them the empty results are appended at once.
AfterResponse(f, stop_reason, blocks) ==
    LET g == [f EXCEPT !.iteration = @ + 1,
                       !.all_tool_use = @ /\ stop_reason = "tool_use"]
    IN  IF stop_reason # "tool_use" THEN [g EXCEPT !.pc = "exit"]
        ELSE IF blocks = 0 THEN NextIteration(g)
        ELSE [g EXCEPT !.pc = "tools", !.pending = blocks]

\* One iteration's create_message: the budget check, then the gateway's
\* response and the counters.
CreateMessage ==
    /\ stack # <<>>
    /\ Top.pc = "think"
    /\ UNCHANGED <<chain, tools>>
    /\ IF BudgetExceeded(EstimateCost(total_input_tokens, total_output_tokens),
                         max_cost_per_session_usd)
       THEN /\ stack' = Append(Below, [Top EXCEPT !.pc = "raising"])
            /\ status' = [status EXCEPT ![Top.agent] = "thinking"]
            /\ last' = Event("inference", Top.agent, "none", "refused")
            /\ UNCHANGED <<total_input_tokens, total_output_tokens, total_api_calls>>
       ELSE \E stop_reason \in StopReasons, blocks \in 0..MaxBlocks,
               input_tokens \in InputTokens, output_tokens \in OutputTokens :
                /\ stop_reason # "tool_use" => blocks = 0
                /\ total_input_tokens' = total_input_tokens + input_tokens
                /\ total_output_tokens' = total_output_tokens + output_tokens
                /\ total_api_calls' = total_api_calls + 1
                /\ stack' = Append(Below, AfterResponse(Top, stop_reason, blocks))
                /\ status' = [status EXCEPT ![Top.agent] =
                                 IF stop_reason = "tool_use" THEN "executing_tool"
                                 ELSE "thinking"]
                /\ last' = Event("inference", Top.agent, "none", stop_reason)

\* The frame once a tool call has given its result.
ToolDone(f, result) ==
    LET g == [f EXCEPT !.pending = @ - 1, !.tool_results = Append(@, result)]
    IN  IF g.pending > 0 THEN g ELSE NextIteration(g)

\* _execute_tool: what registry.execute raises becomes an error result.
ExecuteToolUncaught(f, raised) ==
    IF raised THEN [f EXCEPT !.pc = "raising"] ELSE ToolDone(f, "ok")

ExecuteTool(f, raised) ==
    IF raised THEN ToolDone(f, "error") ELSE ToolDone(f, "ok")

\* A tool call that enters no other agent: a name without a handler is
\* refused before anything runs; the sandbox handler returns or raises.
CallTool(tool_name, raised) ==
    /\ stack # <<>>
    /\ Top.pc = "tools"
    /\ tool_name \notin {"delegate_task", "broadcast"}
    /\ UNCHANGED <<chain, status, total_input_tokens, total_output_tokens,
                   total_api_calls>>
    /\ IF tool_name \notin DOMAIN handlers
       THEN /\ raised
            /\ stack' = Append(Below, ExecuteTool(Top, TRUE))
            /\ last' = Event("tool", Top.agent, tool_name, "ValueError")
            /\ UNCHANGED tools
       ELSE /\ stack' = Append(Below, ExecuteTool(Top, raised))
            /\ last' = Event("tool", Top.agent, tool_name,
                             IF raised THEN "RuntimeError" ELSE "ok")
            /\ tools' = Executed(tool_name)

\* finally: target._delegation_chain = []
DelegationFinishedNoFinally(c, target, raised) ==
    IF raised THEN c ELSE [c EXCEPT ![target] = <<>>]

DelegationFinished(c, target, raised) == [c EXCEPT ![target] = <<>>]

\* The agents the cycle error names, in the order it joins them with " -> ":
\* ' -> '.join(delegation_chain) -> target_id
CycleError(delegation_chain, target_id) == Append(delegation_chain, target_id)

CycleEvent(agent, target, text) ==
    [ev |-> "delegate", agent |-> agent, target |-> target, result |-> "cycle", text |-> text]

\* execute_delegate_task, up to the target's process_message.
DelegateTask(target_id) ==
    /\ stack # <<>>
    /\ Top.pc = "tools"
    /\ "delegate_task" \in DOMAIN handlers
    /\ UNCHANGED <<status, total_input_tokens, total_output_tokens, total_api_calls>>
    /\ IF target_id = "missing"
       THEN /\ stack' = Append(Below, ExecuteTool(Top, TRUE))
            /\ last' = Event("delegate", Top.agent, target_id, "KeyError")
            /\ tools' = Executed("delegate_task")
            /\ UNCHANGED chain
       ELSE IF target_id \notin Agents
       THEN /\ stack' = Append(Below, ExecuteTool(Top, FALSE))
            /\ last' = Event("delegate", Top.agent, target_id, "unknown")
            /\ tools' = Executed("delegate_task")
            /\ UNCHANGED chain
       ELSE IF \E i \in 1..Len(chain[Top.agent]) : chain[Top.agent][i] = target_id
       THEN /\ stack' = Append(Below, ExecuteTool(Top, FALSE))
            /\ last' = CycleEvent(Top.agent, target_id, CycleError(chain[Top.agent], target_id))
            /\ tools' = Executed("delegate_task")
            /\ UNCHANGED chain
       ELSE /\ Len(stack) < MaxDepth
            /\ chain' = [chain EXCEPT ![target_id] = Append(chain[Top.agent], Top.agent)]
            /\ stack' = Append(stack, Frame(target_id, "delegate"))
            /\ last' = Event("delegate", Top.agent, target_id, "entered")
            /\ UNCHANGED tools

\* execute_broadcast without an alliance, up to the first target's
\* process_message: the targets are all the other agents.
OtherAgents(agent) == SelectSeq(AgentOrder, LAMBDA a : a # agent)

Broadcast ==
    /\ stack # <<>>
    /\ Top.pc = "tools"
    /\ "broadcast" \in DOMAIN handlers
    /\ UNCHANGED <<chain, status, total_input_tokens, total_output_tokens,
                   total_api_calls>>
    /\ LET target_ids == OtherAgents(Top.agent)
       IN  IF target_ids = <<>>
           THEN /\ stack' = Append(Below, ExecuteTool(Top, FALSE))
                /\ last' = Event("broadcast", Top.agent, "none", "no targets")
                /\ tools' = Executed("broadcast")
           ELSE /\ Len(stack) < MaxDepth
                /\ stack' = Append(Below, [Top EXCEPT !.targets = Tail(target_ids)])
                                \o <<Frame(Head(target_ids), "broadcast")>>
                /\ last' = Event("broadcast", Top.agent, Head(target_ids), "entered")
                /\ UNCHANGED tools

\* The caller's side of a process_message that is over. A delegation
\* clears the target's chain and hands the response, or the exception,
\* to the caller's tool call; a broadcast keeps the response or the error
\* text and goes on to its next target, and returns after the last.
Caller == stack[Len(stack) - 1]
Callers == SubSeq(stack, 1, Len(stack) - 2)

Deliver(raised) ==
    IF Top.via = "top"
    THEN /\ stack' = <<>>
         /\ UNCHANGED <<chain, tools>>
    ELSE IF Top.via = "delegate"
    THEN /\ chain' = DelegationFinished(chain, Top.agent, raised)
         /\ stack' = Append(Callers, ExecuteTool(Caller, raised))
         /\ tools' = Executed("delegate_task")
    ELSE IF Caller.targets # <<>>
    THEN /\ stack' = Append(Callers, [Caller EXCEPT !.targets = Tail(@)])
                         \o <<Frame(Head(Caller.targets), "broadcast")>>
         /\ UNCHANGED <<chain, tools>>
    ELSE /\ stack' = Append(Callers, ExecuteTool(Caller, FALSE))
         /\ tools' = Executed("broadcast")
         /\ UNCHANGED chain

\* The end of process_message: the agent is idle and the text returned.
Return ==
    /\ stack # <<>>
    /\ Top.pc = "exit"
    /\ status' = [status EXCEPT ![Top.agent] = "idle"]
    /\ Deliver(FALSE)
    /\ last' = Event("return", Top.agent, Top.via, "returned")
    /\ UNCHANGED <<total_input_tokens, total_output_tokens, total_api_calls>>

\* An exception leaves process_message.
Raise ==
    /\ stack # <<>>
    /\ Top.pc = "raising"
    /\ Deliver(TRUE)
    /\ last' = Event("raise", Top.agent, Top.via, "raised")
    /\ UNCHANGED <<status, total_input_tokens, total_output_tokens, total_api_calls>>


----------------------------------------------------------------------------
(* Civilization: the agent population and the creation graph. Agent ids    *)
(* are fresh (uuid4 in the code); no operation removes an agent, so the    *)
(* next fresh id is the population plus one.                               *)

max_agents == 6          \* config.max_agents, scaled down
max_agent_depth == 2     \* config.max_agent_depth, scaled down

None == 0                \* created_by of an agent nobody created

AgentState(created_by, depth) ==
    [created_by |-> created_by, depth |-> depth, total_agents_created |-> 0]

NewAgentId == Cardinality(DOMAIN agent_states) + 1

NoCivOp == [op |-> "none", creator |-> None, result |-> "none", new |-> None]

\* Civilization.create_agent: the agent states afterwards
CreatedStates(created_by, depth) ==
    Put(agent_states, NewAgentId, AgentState(created_by, depth))

\* Civilization.create_agent: the creation graph afterwards
CreatedGraph(created_by) ==
    IF created_by # None
    THEN Put(creation_graph, created_by,
             Append(IF created_by \in DOMAIN creation_graph
                    THEN creation_graph[created_by] ELSE <<>>, NewAgentId))
    ELSE creation_graph

\* The state the shell starts from: a civilization whose only agent is the
\* primary one, created with no creator and depth 0.
InitCivilization ==
    /\ agent_states = (1 :> AgentState(None, 0))
    /\ creation_graph = <<>>
    /\ civ = NoCivOp

PopulationFull == Cardinality(DOMAIN agent_states) >= max_agents

DepthReachedStrict(agent) == agent_states[agent].depth > max_agent_depth

DepthReached(agent) == agent_states[agent].depth >= max_agent_depth

\* execute_create_agent, called by the agent with id `agent`
ExecuteCreateAgent(agent) ==
    IF PopulationFull
    THEN /\ civ' = [op |-> "create_agent", creator |-> agent, result |-> "max_agents", new |-> None]
         /\ UNCHANGED <<agent_states, creation_graph>>
    ELSE IF DepthReached(agent)
    THEN /\ civ' = [op |-> "create_agent", creator |-> agent, result |-> "max_depth", new |-> None]
         /\ UNCHANGED <<agent_states, creation_graph>>
    ELSE /\ agent_states' = [CreatedStates(agent, agent_states[agent].depth + 1)
                              EXCEPT ![agent].total_agents_created = @ + 1]
         /\ creation_graph' = CreatedGraph(agent)
         /\ civ' = [op |-> "create_agent", creator |-> agent, result |-> "created", new |-> NewAgentId]

----------------------------------------------------------------------------
(* AgentMemory: the conversation window and the episodic memories. A turn  *)
(* is identified by its position in the order of the appends, an episodic  *)
(* memory by its id and importance.                                        *)

MaxWindow == 3           \* largest max_conversation_turns configured
MaxCapacity == 2         \* largest max_episodic_memories configured
MaxTurns == 2 * MaxWindow + 2    \* appends of turns to one memory
MaxInserts == MaxCapacity + 2    \* inserts of episodic memories into one memory
Importances == {0, 1, 2}         \* importance values, by rank

Min(a, b) == IF a < b THEN a ELSE b
Max(a, b) == IF a > b THEN a ELSE b

\* s[i:] of a Python list, for any integer i (a negative i counts from the end)
SliceFrom(s, i) ==
    LET start == IF i < 0 THEN Max(Len(s) + i, 0) ELSE Min(i, Len(s))
    IN  SubSeq(s, start + 1, Len(s))

\* s[:n] of a Python list, for n >= 0
SliceTo(s, n) == SubSeq(s, 1, Min(n, Len(s)))

\* turns and inserts count the appends made to this memory so far
NoMemoryOp == [op |-> "none", turns |-> 0, inserts |-> 0, before |-> <<>>, dropped |-> {}]

\* AgentMemory(max_conversation_turns = window, max_episodic_memories = capacity)
NewMemory(window, capacity) ==
    /\ max_conversation_turns' = window
    /\ max_episodic_memories' = capacity
    /\ conversation_history' = <<>>
    /\ episodic_memories' = <<>>
    /\ mem' = NoMemoryOp

InitMemory ==
    /\ max_conversation_turns = MaxWindow
    /\ max_episodic_memories = MaxCapacity
    /\ conversation_history = <<>>
    /\ episodic_memories = <<>>
    /\ mem = NoMemoryOp

\* AgentMemory._compact_history
CompactHistory(h) ==
    IF Len(h) > max_conversation_turns + 2
    THEN SliceTo(h, 2) \o SliceFrom(h, -max_conversation_turns)
    ELSE h

\* AgentMemory.add_conversation_turn
AddConversationTurn ==
    LET turn == mem.turns + 1
        h == Append(conversation_history, turn)
    IN  /\ turn <= MaxTurns
        /\ conversation_history' =
               IF Len(h) > max_conversation_turns * 2 THEN CompactHistory(h) ELSE h
        /\ mem' = [op |-> "add_conversation_turn", turns |-> turn, inserts |-> mem.inserts,
                   before |-> h, dropped |-> {}]
        /\ UNCHANGED <<max_conversation_turns, episodic_memories, max_episodic_memories>>

EpisodicMemory(id, importance) == [id |-> id, importance |-> importance]

Elements(s) == {s[i] : i \in 1 .. Len(s)}

\* the order of sort(key = importance, reverse = True): a stays before m
StaysBeforeAscending(a, m) == a.importance <= m.importance

StaysBefore(a, m) == a.importance >= m.importance

InsertByImportance(sorted, m) ==
    LET k == Cardinality({i \in 1 .. Len(sorted) : StaysBefore(sorted[i], m)})
    IN  SubSeq(sorted, 1, k) \o <<m>> \o SubSeq(sorted, k + 1, Len(sorted))

\* list.sort(key = lambda m: m.importance, reverse = True), a stable sort
RECURSIVE SortByImportance(_)
SortByImportance(s) ==
    IF s = <<>> THEN <<>>
    ELSE InsertByImportance(SortByImportance(SubSeq(s, 1, Len(s) - 1)), s[Len(s)])

\* AgentMemory.add_episodic_memory
AddEpisodicMemory(importance) ==
    LET id == mem.inserts + 1
        l == Append(episodic_memories, EpisodicMemory(id, importance))
        kept == IF Len(l) > max_episodic_memories
                THEN SliceTo(SortByImportance(l), max_episodic_memories)
                ELSE l
    IN  /\ id <= MaxInserts
        /\ episodic_memories' = kept
        /\ mem' = [op |-> "add_episodic_memory", turns |-> mem.turns, inserts |-> id,
                   before |-> l, dropped |-> Elements(l) \ Elements(kept)]
        /\ UNCHANGED <<conversation_history, max_conversation_turns, max_episodic_memories>>

----------------------------------------------------------------------------
(* Alliances and execute_broadcast. A broadcast in flight is a frame: its  *)
(* caller, the target ids it computed, the targets whose process_message   *)
(* it has called so far (the last of them is running) and the responses    *)
(* it has collected. While a target's process_message runs, that target    *)
(* can create agents, form alliances and broadcast in its turn.            *)

MaxPopulation == 3       \* agents while alliances and broadcasts are explored
MaxAlliances == 1        \* alliances formed
MaxBroadcastDepth == 1   \* broadcasts nested in one another

\* input["name"] of form_alliance, input.get("alliance_name") of broadcast
\* ("" is also what an absent or empty alliance_name amounts to)
AllianceNames == {"", "n1"}
BroadcastNames == {"", "n1", "n2"}

\* the ids form_alliance can be given: the agents and one id of no agent
MemberIds == 1 .. MaxPopulation + 1

\* list(set(ids)): the ids without repetition, in an order the set decides
Orders(S) ==
    {s \in [1 .. Cardinality(S) -> S] : \A i, j \in 1 .. Cardinality(S) : s[i] = s[j] => i = j}

Alliance(name, agent_ids, created_by) ==
    [name |-> name, agent_ids |-> agent_ids, created_by |-> created_by]

NoBroadcastOp ==
    [op |-> "none", caller |-> None, name |-> "", result |-> "none",
     entered |-> <<>>, responses |-> <<>>]

InitAlliances ==
    /\ alliances = <<>>
    /\ broadcasts = <<>>
    /\ bc = NoBroadcastOp

\* the agent whose decision loop is running: the target the innermost
\* broadcast is waiting for
Running == broadcasts[Len(broadcasts)].entered[Len(broadcasts[Len(broadcasts)].entered)]

\* the agents that can make a tool call now
CanCall(agent) ==
    /\ agent \in DOMAIN agent_states
    /\ broadcasts # <<>> => agent = Running

\* input["agent_ids"] without the caller's own id
MemberSetWithoutCaller(agent, ids) == ids

\* set(input["agent_ids"] + [agent.id])
MemberSet(agent, ids) == ids \cup {agent}

\* execute_form_alliance
ExecuteFormAlliance(agent, name, ids) ==
    /\ \E agent_ids \in Orders(MemberSet(agent, ids)) :
           IF \E i \in 1 .. Len(agent_ids) : agent_ids[i] \notin DOMAIN agent_states
           THEN /\ bc' = [NoBroadcastOp EXCEPT !.op = "form_alliance", !.caller = agent,
                                                !.name = name, !.result = "no agent"]
                /\ UNCHANGED alliances
           ELSE /\ alliances' = Append(alliances, Alliance(name, agent_ids, agent))
                /\ bc' = [NoBroadcastOp EXCEPT !.op = "form_alliance", !.caller = agent,
                                                !.name = name, !.result = "formed"]
    /\ UNCHANGED broadcasts

\* execute_form_alliance while fewer than MaxAlliances alliances exist
FormAlliance(agent, name, ids) ==
    /\ Len(alliances) < MaxAlliances
    /\ ExecuteFormAlliance(agent, name, ids)

\* Civilization.get_alliance_by_name: the index of the first alliance of
\* that name, 0 for None
GetAllianceByName(name) ==
    IF \E k \in 1 .. Len(alliances) : alliances[k].name = name
    THEN CHOOSE k \in 1 .. Len(alliances) :
             /\ alliances[k].name = name
             /\ \A j \in 1 .. k - 1 : alliances[j].name # name
    ELSE 0

\* Civilization.get_all_agents(): the agents in the order of their creation
AllAgents == [i \in 1 .. Cardinality(DOMAIN agent_states) |-> i]

\* execute_broadcast: target_ids
TargetIds(agent, alliance_name) ==
    IF Truthy(alliance_name)
    THEN SelectSeq(alliances[GetAllianceByName(alliance_name)].agent_ids, LAMBDA aid : aid # agent)
    ELSE SelectSeq(AllAgents, LAMBDA aid : aid # agent)

BroadcastFrame(agent, alliance_name, target_ids) ==
    [caller |-> agent, name |-> alliance_name, target_ids |-> target_ids,
     entered |-> <<Head(target_ids)>>, responses |-> <<>>]

Finished(caller, name, result, entered, responses) ==
    [op |-> "broadcast", caller |-> caller, name |-> name, result |-> result,
     entered |-> entered, responses |-> responses]

\* execute_broadcast, up to the first target's process_message
ExecuteBroadcast(agent, alliance_name) ==
    /\ UNCHANGED alliances
    /\ IF Truthy(alliance_name) /\ GetAllianceByName(alliance_name) = 0
       THEN /\ bc' = Finished(agent, alliance_name, "no alliance", <<>>, <<>>)
            /\ UNCHANGED broadcasts
       ELSE LET target_ids == TargetIds(agent, alliance_name)
            IN  IF target_ids = <<>>
                THEN /\ bc' = Finished(agent, alliance_name, "no targets", <<>>, <<>>)
                     /\ UNCHANGED broadcasts
                ELSE /\ Len(broadcasts) < MaxBroadcastDepth
                     /\ broadcasts' = Append(broadcasts,
                                             BroadcastFrame(agent, alliance_name, target_ids))
                     /\ bc' = Finished(agent, alliance_name, "running", <<>>, <<>>)

\* without the try / except around the target's process_message the first
\* failure would end the broadcast
AfterTargetUncaught(f, raised) ==
    IF raised
    THEN [f EXCEPT !.responses = Append(@, [target |-> f.entered[Len(f.entered)], text |-> "error"]),
                   !.target_ids = f.entered]
    ELSE [f EXCEPT !.responses = Append(@, [target |-> f.entered[Len(f.entered)], text |-> "response"])]

\* execute_broadcast: the response of the running target, or the text of
\* the exception its process_message raised, joins the responses
AfterTarget(f, raised) ==
    [f EXCEPT !.responses = Append(@, [target |-> f.entered[Len(f.entered)],
                                      text |-> IF raised THEN "error" ELSE "response"])]

\* execute_broadcast from the end of one target's process_message: the
\* next target's process_message is called, or the responses are returned.
\* (Every target id is the id of an agent: form_alliance accepts only
\* existing agents and no operation removes one.)
TargetDone(raised) ==
    /\ broadcasts # <<>>
    /\ UNCHANGED alliances
    /\ LET g == AfterTarget(broadcasts[Len(broadcasts)], raised)
           rest == SubSeq(broadcasts, 1, Len(broadcasts) - 1)
       IN  IF Len(g.entered) < Len(g.target_ids)
           THEN /\ broadcasts' =
                       Append(rest, [g EXCEPT !.entered = Append(@, g.target_ids[Len(@) + 1])])
                /\ UNCHANGED bc
           ELSE /\ broadcasts' = rest
                /\ bc' = Finished(g.caller, g.name, "responses", g.entered, g.responses)

----------------------------------------------------------------------------
(* ToolificationEngine: skeleton extraction. A code payload is a sequence  *)
(* of characters; a placeholder the extraction has put in is one element,  *)
(* "<STR>" or "<NUM>", whose outer characters are not word characters.     *)

Digits == {"0", "1", "2", "3", "5"}
Letters == {"a", "b", "e", "f", "x"}
Whitespace == {" ", "\n"}

IsDigitAt(s, i) == i >= 1 /\ i <= Len(s) /\ s[i] \in Digits

\* \w
IsWordAt(s, i) == i >= 1 /\ i <= Len(s) /\ s[i] \in Digits \cup Letters \cup {"_"}

\* the first index from i on at which s has the character c, 0 for none
RECURSIVE Find(_, _, _)
Find(s, c, i) ==
    IF i > Len(s) THEN 0
    ELSE IF s[i] = c THEN i
    ELSE Find(s, c, i + 1)

\* re.sub(q [^q]* q, q <STR> q, s) from index i on, for the quote q
RECURSIVE SubQuoted(_, _, _)
SubQuoted(s, q, i) ==
    LET open == Find(s, q, i)
        close == IF open = 0 THEN 0 ELSE Find(s, q, open + 1)
    IN  IF close = 0 THEN SubSeq(s, i, Len(s))
        ELSE SubSeq(s, i, open - 1) \o <<q, "<STR>", q>> \o SubQuoted(s, q, close + 1)

\* the index after the run of digits that starts at i
RECURSIVE DigitsEnd(_, _)
DigitsEnd(s, i) == IF IsDigitAt(s, i) THEN DigitsEnd(s, i + 1) ELSE i

\* \b\d+\.?\d*\b matched at i: the index after the match, 0 for no match.
\* The digits are taken greedily, then the dot and the digits after it;
\* when the word boundary fails there the match falls back to end after
\* the dot, then before it.
NumberEnd(s, i) ==
    LET p == DigitsEnd(s, i)
        q == DigitsEnd(s, p + 1)
    IN  IF ~ IsDigitAt(s, i) \/ IsWordAt(s, i - 1) THEN 0
        ELSE IF p <= Len(s) /\ s[p] = "."
        THEN IF q > p + 1 /\ ~ IsWordAt(s, q) THEN q
             ELSE IF IsWordAt(s, p + 1) THEN p + 1
             ELSE p
        ELSE IF IsWordAt(s, p) THEN 0
        ELSE p

\* re.sub(\b\d+\.?\d*\b, <NUM>, s) from index i on
RECURSIVE SubNumbers(_, _)
SubNumbers(s, i) ==
    IF i > Len(s) THEN <<>>
    ELSE IF NumberEnd(s, i) # 0 THEN <<"<NUM>">> \o SubNumbers(s, NumberEnd(s, i))
    ELSE <<s[i]>> \o SubNumbers(s, i + 1)

\* re.sub(\s+, " ", s) from index i on
RECURSIVE CollapseWhitespace(_, _)
CollapseWhitespace(s, i) ==
    IF i > Len(s) THEN <<>>
    ELSE IF s[i] \in Whitespace
    THEN IF i > 1 /\ s[i - 1] \in Whitespace
         THEN CollapseWhitespace(s, i + 1)
         ELSE <<" ">> \o CollapseWhitespace(s, i + 1)
    ELSE <<s[i]>> \o CollapseWhitespace(s, i + 1)

\* str.strip() of a text whose whitespace is single spaces
Strip(s) ==
    LET a == IF s # <<>> /\ s[1] = " " THEN 2 ELSE 1
        b == IF s # <<>> /\ s[Len(s)] = " " THEN Len(s) - 1 ELSE Len(s)
    IN  SubSeq(s, a, b)

\* ToolificationEngine._extract_skeleton
ExtractSkeleton(code) ==
    Strip(CollapseWhitespace(SubNumbers(SubQuoted(SubQuoted(code, "\"", 1), "'", 1), 1), 1))

\* Code payloads are built from templates: a text, a literal, a text, a
\* literal, a text. A slot holds a double-quoted or a single-quoted string
\* literal, a numeric literal, a run of whitespace, or nothing.
DoubleQuoted ==
    {<<"\"", "a", "\"">>, <<"\"", "b", "\"">>, <<"\"", "\"">>, <<"\"", "a", "1", "\"">>,
     <<"\"", "a", " ", "b", "\"">>, <<"\"", "a", "'", "b", "\"">>}

SingleQuoted ==
    {<<"'", "a", "'">>, <<"'", "b", "'">>, <<"'", "a", "\"", "b", "'">>}

Numbers ==
    {<<"5">>, <<"1", "2", "3">>, <<"1", ".", "5">>, <<".", "5">>, <<"1", "e", "5">>}

Runs == {<<" ">>, <<" ", " ">>, <<"\n", " ">>}

Literals(kind) ==
    CASE kind = "dq" -> DoubleQuoted
      [] kind = "sq" -> SingleQuoted
      [] kind = "num" -> Numbers
      [] kind = "ws" -> Runs
      [] OTHER -> {<<>>}

Template(pre, kind1, mid, kind2, post) ==
    [pre |-> pre, kind1 |-> kind1, mid |-> mid, kind2 |-> kind2, post |-> post]

\* load("a.csv"), x = 5, and calls with two literals
Templates ==
    {Template(<<"f", "(">>, "dq", <<")">>, "none", <<>>),
     Template(<<"x">>, "ws", <<"=", " ">>, "num", <<>>),
     Template(<<"f", "(">>, "dq", <<",", " ">>, "num", <<")">>),
     Template(<<"f", "(">>, "sq", <<",">>, "dq", <<")">>),
     Template(<<"f", "(">>, "sq", <<",">>, "sq", <<")">>),
     Template(<<"x", "=">>, "num", <<";">>, "ws", <<"f", "(", ")">>)}

Payload(t, l1, l2) == t.pre \o l1 \o t.mid \o l2 \o t.post

NoSkeletonOp ==
    [op |-> "none", template |-> Template(<<>>, "none", <<>>, "none", <<>>),
     code_a |-> <<>>, code_b |-> <<>>, skeleton_a |-> <<>>, skeleton_b |-> <<>>]

\* _extract_skeleton applied to two payloads of one template (a pure
\* function: one application from the initial state covers each input)
ExtractSkeletons(t, a1, a2, b1, b2) ==
    /\ sk.op = "none"
    /\ sk' = [op |-> "extract", template |-> t,
              code_a |-> Payload(t, a1, a2), code_b |-> Payload(t, b1, b2),
              skeleton_a |-> ExtractSkeleton(Payload(t, a1, a2)),
              skeleton_b |-> ExtractSkeleton(Payload(t, b1, b2))]


----------------------------------------------------------------------------
(* ToolificationEngine: detection of repeated code.                        *)

MaxRecords == 4          \* records in the execution log when it is analysed
MaxThreshold == 2        \* largest threshold an engine is built with
MaxExamples == 3         \* records[:3]

\* code payloads: x = 5, x = 123, f("a"), and a blank line
Codes ==
    {<<"x", " ", "=", " ", "5">>, <<"x", " ", "=", " ", "1", "2", "3">>,
     <<"f", "(", "\"", "a", "\"", ")">>, <<"\n">>}

\* the calls that are recorded: code run in the sandbox, code whose run
\* raised, another action of the sandbox tool, and another tool
Calls ==
    {[tool_name |-> "sandbox", tool_input |-> ToolInput("exec_python", code), raised |-> FALSE] :
         code \in Codes}
    \cup {[tool_name |-> "sandbox",
           tool_input |-> ToolInput("exec_python", <<"x", " ", "=", " ", "5">>), raised |-> TRUE],
          [tool_name |-> "sandbox",
           tool_input |-> ToolInput("read_file", <<"x", " ", "=", " ", "5">>), raised |-> FALSE],
          [tool_name |-> "broadcast",
           tool_input |-> ToolInput("exec_python", <<"x", " ", "=", " ", "5">>), raised |-> FALSE]}

NoAnalysis == [op |-> "none", agent |-> "none", threshold |-> 0, candidates |-> <<>>]

InitToolification ==
    /\ sk = NoSkeletonOp
    /\ analysis = NoAnalysis

\* _detect_code_patterns: code_executions
CodeExecutions(agent) ==
    SelectSeq(execution_log,
              LAMBDA r : /\ r.agent_id = agent
                         /\ r.tool_name = "sandbox"
                         /\ r.success
                         /\ r.input_params.action = "exec_python")

SkeletonOf(record) == ExtractSkeleton(record.input_params.code)

\* skeleton_groups[skeleton]
Group(records, skeleton) == SelectSeq(records, LAMBDA r : SkeletonOf(r) = skeleton)

\* the keys of skeleton_groups in the order they were inserted: the
\* skeleton of each record that is the first of its skeleton, the empty
\* skeleton left out
GroupKeys(records) ==
    LET first == SelectSeq([i \in 1 .. Len(records) |-> i],
                           LAMBDA i : /\ SkeletonOf(records[i]) # <<>>
                                      /\ \A j \in 1 .. i - 1 :
                                             SkeletonOf(records[j]) # SkeletonOf(records[i]))
    IN  [k \in 1 .. Len(first) |-> SkeletonOf(records[first[k]])]

\* _build_candidate_from_code
Candidate(skeleton, records, agent) ==
    [skeleton |-> skeleton, agent_id |-> agent, frequency |-> Len(records),
     example_invocations |->
         [i \in 1 .. Min(MaxExamples, Len(records)) |-> records[i].input_params],
     suggested_implementation |-> records[1].input_params.code]

\* if len(records) >= self.threshold
ReachesThresholdStrict(records, threshold) == Len(records) > threshold

ReachesThreshold(records, threshold) == Len(records) >= threshold

\* _detect_code_patterns
DetectCodePatterns(agent, threshold) ==
    LET code_executions == CodeExecutions(agent)
        keys == GroupKeys(code_executions)
        kept == SelectSeq(keys, LAMBDA s : ReachesThreshold(Group(code_executions, s), threshold))
    IN  IF Len(code_executions) < threshold THEN <<>>
        ELSE [k \in 1 .. Len(kept) |-> Candidate(kept[k], Group(code_executions, kept[k]), agent)]

\* the engine's analysis of the log there is (a pure function of the log:
\* one analysis covers each log, agent and threshold)
Analyze(agent, threshold) ==
    /\ analysis.op = "none"
    /\ analysis' = [op |-> "detect_code_patterns", agent |-> agent, threshold |-> threshold,
                    candidates |-> DetectCodePatterns(agent, threshold)]

----------------------------------------------------------------------------
(* Persistence: Civilization.save writes the agent states, the custom tool *)
(* definitions and the alliances as JSON; Civilization.load builds a new   *)
(* civilization (a new registry with its built-ins) from that file.        *)

MaxSaves == 1            \* save/load round trips made
MaxSaved == 2            \* agents while save and load are explored

\* input.get("new_role") of evolve ("" for an absent one)
Roles == {"", "r1"}

\* input.get("knowledge_key") / input.get("knowledge_value") of evolve
KnowledgeKeys == {"", "k1"}
KnowledgeValues == {"v1"}

NoPersistOp == [saves |-> 0]

\* create_agent of the shell: the primary agent's role, an empty memory
InitPersistence ==
    /\ role = (1 :> "r0")
    /\ knowledge = (1 :> <<>>)
    /\ persist = NoPersistOp

\* Agent(state) for a new agent: create_agent passes the role, the memory
\* is the default one
CreatedProfile ==
    /\ role' = [id \in DOMAIN agent_states' |-> IF id \in DOMAIN role THEN role[id] ELSE "r0"]
    /\ knowledge' = [id \in DOMAIN agent_states' |->
                        IF id \in DOMAIN knowledge THEN knowledge[id] ELSE <<>>]

\* execute_evolve: the role and the knowledge store
Evolve(agent, new_role, knowledge_key, knowledge_value) ==
    /\ role' = IF Truthy(new_role) THEN [role EXCEPT ![agent] = new_role] ELSE role
    /\ knowledge' = IF Truthy(knowledge_key) /\ Truthy(knowledge_value)
                    THEN [knowledge EXCEPT ![agent] = Put(@, knowledge_key, knowledge_value)]
                    ELSE knowledge

\* model_dump(mode="json") of an optional string: null or the string
DumpOptional(v) == IF v = None THEN <<>> ELSE <<v>>

\* pydantic's validation of an optional string read from JSON
ParseOptional(j) == IF j = <<>> THEN None ELSE j[1]

\* AgentState.model_dump(mode="json")
DumpAgentState(id) ==
    [id |-> id, role |-> role[id],
     created_by |-> DumpOptional(agent_states[id].created_by),
     depth |-> agent_states[id].depth,
     total_agents_created |-> agent_states[id].total_agents_created,
     memory |-> [knowledge |-> knowledge[id]]]

\* ToolDefinition.model_dump(): the definition with its id
DumpTool(id) ==
    [id |-> id, definition |-> tools[id]]

\* get_all_tools(): the definitions in the order of the _tools dict, which
\* is the order of their registration
AllTools == [i \in 1 .. Cardinality(DOMAIN tools) |->
                CHOOSE id \in DOMAIN tools :
                    Cardinality({other \in DOMAIN tools : other < id}) = i - 1]

\* Civilization.save: state_data
Save ==
    [agent_states |-> [id \in DOMAIN agent_states |-> DumpAgentState(id)],
     tool_definitions |->
         [i \in 1 .. Cardinality({id \in DOMAIN tools : tools[id].scope # "builtin"}) |->
             DumpTool(SelectSeq(AllTools, LAMBDA id : tools[id].scope # "builtin")[i])],
     alliances |-> alliances,
     creation_graph |-> creation_graph]

\* ToolRegistry(): the registry with its built-ins alone
NewRegistry ==
    [tools |-> [i \in BuiltinIds |->
                   [name |-> BuiltinNames[i], description |-> "d0", input_schema |-> "s0",
                    scope |-> "builtin", created_by_agent_id |-> "none",
                    source_code |-> "none", version |-> 1, usage_count |-> 0]],
     tools_by_name |-> [n \in {BuiltinNames[i] : i \in BuiltinIds} |->
                           CHOOSE i \in BuiltinIds : BuiltinNames[i] = n],
     handlers |-> [n \in {BuiltinNames[i] : i \in BuiltinIds} |->
                      [kind |-> "builtin",
                       tool |-> CHOOSE i \in BuiltinIds : BuiltinNames[i] = n]]]

\* load's `try: register(tool_def) except ValueError: pass` on the registry r
Registered(r, tool_data) ==
    LET tool_def == tool_data.definition
    IN  IF tool_def.name \in DOMAIN r.tools_by_name
        THEN r
        ELSE [tools |-> Put(r.tools, tool_data.id, tool_def),
              tools_by_name |-> Put(r.tools_by_name, tool_def.name, tool_data.id),
              handlers |-> IF Truthy(tool_def.source_code)
                           THEN Put(r.handlers, tool_def.name, CustomHandler(tool_data.id))
                           ELSE r.handlers]

\* load's loop over state_data["tool_definitions"]
RECURSIVE LoadTools(_, _)
LoadTools(r, tool_definitions) ==
    IF tool_definitions = <<>> THEN r
    ELSE LoadTools(Registered(r, Head(tool_definitions)), Tail(tool_definitions))

\* Civilization.load: the civilization built from state_data
Load(state_data) ==
    [agent_states |-> [id \in DOMAIN state_data.agent_states |->
                          [created_by |-> ParseOptional(state_data.agent_states[id].created_by),
                           depth |-> state_data.agent_states[id].depth,
                           total_agents_created |->
                               state_data.agent_states[id].total_agents_created]],
     role |-> [id \in DOMAIN state_data.agent_states |-> state_data.agent_states[id].role],
     knowledge |-> [id \in DOMAIN state_data.agent_states |->
                       state_data.agent_states[id].memory.knowledge],
     registry |-> LoadTools(NewRegistry, state_data.tool_definitions),
     alliances |-> state_data.alliances,
     creation_graph |-> state_data.creation_graph]

\* the shell's save followed by its load of the saved id: the loaded
\* civilization takes the place of the running one
SaveAndLoad ==
    LET civilization == Load(Save)
    IN  /\ persist.saves < MaxSaves
        /\ agent_states' = civilization.agent_states
        /\ role' = civilization.role
        /\ knowledge' = civilization.knowledge
        /\ creation_graph' = civilization.creation_graph
        /\ alliances' = civilization.alliances
        /\ tools' = civilization.registry.tools
        /\ tools_by_name' = civilization.registry.tools_by_name
        /\ handlers' = civilization.registry.handlers
        /\ execution_log' = <<>>
        /\ reg' = NoRegistryOp
        /\ persist' = [saves |-> persist.saves + 1]
        /\ UNCHANGED <<nextId, civ, broadcasts, bc>>

----------------------------------------------------------------------------
(* Agent.process_message as the gateway sees it: the messages list of one  *)
(* invocation, the responses with their content blocks, and the tool       *)
(* results the loop appends. The agent is a1; a text is a sequence of the  *)
(* texts that "\n".join puts together.                                     *)

MaxContent == 2          \* content blocks of one response

\* block.text of the text blocks: a text and the empty one
Texts == {"x", ""}

\* block.name of the tool_use blocks: a name with a handler, one without
ToolUseNames == {"sandbox", "t1"}

TextBlock(text) == [type |-> "text", text |-> text, name |-> "none", id |-> 0]

ToolUseBlock(name) == [type |-> "tool_use", text |-> "", name |-> name, id |-> 0]

Blocks == {TextBlock(text) : text \in Texts} \cup {ToolUseBlock(name) : name \in ToolUseNames}

\* response.content: the blocks, the tool_use blocks carrying ids that no
\* other block of the invocation has
ResponseContents == UNION {[1 .. n -> Blocks] : n \in 0 .. MaxContent}

WithIds(content, iteration) ==
    [i \in 1 .. Len(content) |->
        IF content[i].type = "tool_use"
        THEN [content[i] EXCEPT !.id = MaxContent * (iteration - 1) + i]
        ELSE content[i]]

\* _extract_text: the texts of the blocks that have a non-empty one
ExtractText(content_blocks) ==
    LET texts == SelectSeq(content_blocks, LAMBDA block : block.type = "text" /\ Truthy(block.text))
    IN  [i \in 1 .. Len(texts) |-> texts[i].text]

\* the blocks of a response the loop executes
ToolUses(content) == SelectSeq(content, LAMBDA block : block.type = "tool_use")

\* _execute_tool: the tool_result block of a call
ToolResult(tool_use_id, raised) ==
    [type |-> "tool_result", tool_use_id |-> tool_use_id, is_error |-> raised]

Turn(speaker, content) == [role |-> speaker, content |-> content]

NoLoop ==
    [pc |-> "idle", iteration |-> 0, content |-> <<>>, stop_reason |-> "none",
     pending |-> <<>>, tool_results |-> <<>>, final_text |-> <<>>, returned |-> FALSE]

InitConversation ==
    /\ messages = <<>>
    /\ loop = NoLoop

\* process_message up to the loop: the user's message joins the messages
ConvProcessMessage ==
    /\ loop.pc = "idle"
    /\ messages' = <<Turn("user", "message")>>
    /\ loop' = [NoLoop EXCEPT !.pc = IF max_loop_iterations > 0 THEN "think" ELSE "exit"]
    /\ UNCHANGED <<status, total_input_tokens, total_output_tokens, total_api_calls>>

\* the end of the for loop over the response's blocks: the results join
\* the messages, and the loop goes on while iterations are left
ToolsDone(l) ==
    [l EXCEPT !.pc = IF l.iteration < max_loop_iterations THEN "think" ELSE "exit",
              !.pending = <<>>, !.tool_results = <<>>]

\* one iteration up to its first tool call: create_message with its budget
\* check, the assistant turn, and the test of the stop reason
ConvCreateMessage ==
    /\ loop.pc = "think"
    /\ status' = [status EXCEPT !["a1"] = "thinking"]
    /\ IF BudgetExceeded(EstimateCost(total_input_tokens, total_output_tokens),
                         max_cost_per_session_usd)
       THEN /\ loop' = [loop EXCEPT !.pc = "raised"]
            /\ UNCHANGED <<messages, total_input_tokens, total_output_tokens, total_api_calls>>
       ELSE \E blocks \in ResponseContents, stop_reason \in StopReasons,
               input_tokens \in InputTokens, output_tokens \in OutputTokens :
                LET content == WithIds(blocks, loop.iteration + 1)
                    l == [loop EXCEPT !.iteration = @ + 1, !.content = content,
                                      !.stop_reason = stop_reason]
                    assistant == Append(messages, Turn("assistant", content))
                IN  /\ total_input_tokens' = total_input_tokens + input_tokens
                    /\ total_output_tokens' = total_output_tokens + output_tokens
                    /\ total_api_calls' = total_api_calls + 1
                    /\ IF stop_reason # "tool_use"
                       THEN /\ loop' = [l EXCEPT !.pc = "exit",
                                                 !.final_text = ExtractText(content)]
                            /\ messages' = assistant
                       ELSE IF ToolUses(content) = <<>>
                       THEN /\ loop' = ToolsDone(l)
                            /\ messages' = Append(assistant, Turn("user", <<>>))
                       ELSE /\ loop' = [l EXCEPT !.pc = "tools", !.pending = ToolUses(content)]
                            /\ messages' = assistant

\* the next tool_use block of the response: _execute_tool around
\* registry.execute, and after the last block the turn of the results
ConvExecuteTool(raised) ==
    /\ loop.pc = "tools"
    /\ LET block == Head(loop.pending)
           refused == block.name \notin DOMAIN handlers
           result == ToolResult(block.id, refused \/ raised)
           tool_results == Append(loop.tool_results, result)
       IN  /\ refused => raised
           /\ Execute(block.name, "a1", NoInput, raised)
           /\ status' = [status EXCEPT !["a1"] = "executing_tool"]
           /\ IF Tail(loop.pending) = <<>>
              THEN /\ loop' = ToolsDone(loop)
                   /\ messages' = Append(messages, Turn("user", tool_results))
              ELSE /\ loop' = [loop EXCEPT !.pending = Tail(@), !.tool_results = tool_results]
                   /\ UNCHANGED messages
    /\ UNCHANGED <<total_input_tokens, total_output_tokens, total_api_calls>>

\* the end of process_message: the status and the text returned
ConvReturn ==
    /\ loop.pc = "exit"
    /\ status' = [status EXCEPT !["a1"] = "idle"]
    /\ loop' = [loop EXCEPT !.pc = "done", !.returned = TRUE]
    /\ UNCHANGED <<messages, total_input_tokens, total_output_tokens, total_api_calls>>

----------------------------------------------------------------------------
(* The tool list of an agent: the create_tool, edit_tool and delete_tool   *)
(* handlers, which keep state.tool_ids, and get_available_tools. An entry  *)
(* of the list is named by the id of the definition whose                  *)
(* to_claude_tool_param it is.                                             *)

NoOffer == [agent |-> "none", tools |-> <<>>]

InitTools ==
    /\ tool_ids = [a \in Agents |-> <<>>]
    /\ offered = NoOffer

\* execute_create_tool: the new id joins the creator's tool_ids unless
\* register refused the name
ExecuteCreateTool(agent, name, scope, implementation) ==
    /\ Register(name, scope, agent, implementation)
    /\ tool_ids' = IF name \in DOMAIN tools_by_name THEN tool_ids
                   ELSE [tool_ids EXCEPT ![agent] = Append(@, nextId)]

\* execute_edit_tool
ExecuteEditTool(agent, tool_id, updates) ==
    /\ Update(tool_id, updates, agent)
    /\ UNCHANGED tool_ids

\* execute_delete_tool: after a delete that returned, the id leaves the
\* caller's tool_ids
ExecuteDeleteTool(agent, tool_id) ==
    /\ Delete(tool_id, agent)
    /\ tool_ids' = IF reg'.result = "ok"
                   THEN [tool_ids EXCEPT ![agent] = SelectSeq(@, LAMBDA id : id # tool_id)]
                   ELSE tool_ids

\* to_claude_tool_param
ToClaudeToolParam(id) ==
    [name |-> tools[id].name, description |-> tools[id].description,
     input_schema |-> tools[id].input_schema]

\* `if t.name not in seen_names: tools.append(...)` over the ids in order
RECURSIVE AppendUnseen(_, _)
AppendUnseen(list, ids) ==
    IF ids = <<>> THEN list
    ELSE IF \E i \in 1 .. Len(list) : tools[list[i]].name = tools[Head(ids)].name
         THEN AppendUnseen(list, Tail(ids))
         ELSE AppendUnseen(Append(list, Head(ids)), Tail(ids))

\* the loops of get_available_tools without the test of seen_names
AppendAll(list, ids) == list \o ids

\* get_builtin_tools / get_shared_tools
ToolsOfScope(scope) == SelectSeq(AllTools, LAMBDA id : tools[id].scope = scope)

\* the ids of state.tool_ids that registry.get finds
OwnTools(agent) == SelectSeq(tool_ids[agent], LAMBDA id : id \in DOMAIN tools)

GetAvailableToolsNoSeenNames(agent) ==
    AppendAll(AppendAll(ToolsOfScope("builtin"), OwnTools(agent)), ToolsOfScope("shared"))

\* get_available_tools: the built-ins, then the agent's tool_ids, then the
\* shared tools, a name entering once
GetAvailableTools(agent) ==
    AppendUnseen(AppendUnseen(ToolsOfScope("builtin"), OwnTools(agent)), ToolsOfScope("shared"))

\* one iteration's create_message(tools=self.get_available_tools())
OfferTools(agent) ==
    /\ offered' = [agent |-> agent, tools |-> GetAvailableTools(agent)]
    /\ UNCHANGED <<registryVars, tool_ids>>

----------------------------------------------------------------------------
(* The containers of SandboxManager. The Docker daemon keeps the           *)
(* containers by name and the images by tag; the manager keeps             *)
(* _containers, agent id -> the container object it was handed. An agent   *)
(* id is a string, kept as the sequence of its characters, and the state   *)
(* of an environment is the content last written into it.                  *)

MaxContainers == 3              \* containers the daemon runs over one behaviour
MaxSnapshots == 2               \* snapshot calls that return over one behaviour
NamePrefixLen == 12             \* agent_id[:12]

Pad == [i \in 1 .. NamePrefixLen |-> "0"]
\* two ids that agree on their first 12 characters, and a third one
AgentIds == {Pad \o <<"1">>, Pad \o <<"2">>, <<"b">>}
\* ids that differ within their first 12 characters
DistinctIds == {Pad \o <<"1">>, <<"b">>}

BaseState == "base"             \* the state of sandbox_base_image
EnvStates == {"s1", "s2"}

\* f"aiv-{agent_id[:12]}"
ContainerName(agent_id) == <<"aiv-">> \o SliceTo(agent_id, NamePrefixLen)

\* f"aiv-snapshot-{agent_id[:12]}", committed and returned with ":latest"
SnapshotTag(agent_id) == <<"aiv-snapshot-">> \o SliceTo(agent_id, NamePrefixLen) \o <<":latest">>

NoManagerOp == [op |-> "none", agent |-> <<>>, result |-> "none", env |-> 0,
                provisioned |-> FALSE, tag |-> <<>>, state |-> "none"]

InitContainers ==
    /\ daemon = [n \in {} |-> 0]
    /\ images = [t \in {} |-> 0]
    /\ containers = [a \in {} |-> 0]
    /\ nextContainer = 1
    /\ snapshots = {}
    /\ sm = NoManagerOp

\* client.containers.run(image, name, ...): a new running container
Run(d, name, state) == Put(d, name, [id |-> nextContainer, status |-> "running", state |-> state])

\* the daemon's name of the container object with this id, if it still has it
NameOf(d, id) == {n \in DOMAIN d : d[n].id = id}

\* existing.start() / container.start()
Started(d, name) == [d EXCEPT ![name].status = "running"]

\* create_sandbox: the container of that name if the daemon has one,
\* started if it is not running, else a new one from the base image
CreatedSandbox(d, agent_id) ==
    LET name == ContainerName(agent_id)
    IN  IF name \in DOMAIN d THEN Started(d, name) ELSE Run(d, name, BaseState)

CreatedHandle(d, agent_id) ==
    LET name == ContainerName(agent_id)
    IN  IF name \in DOMAIN d THEN d[name].id ELSE nextContainer

\* _get_container, as the daemon, _containers and the container it returns
\* (0 when container.reload() raises NotFound: the object that _containers
\* holds names a container the daemon has removed)
GetContainer(agent_id) ==
    LET known   == agent_id \in DOMAIN containers
        d1      == IF known THEN daemon ELSE CreatedSandbox(daemon, agent_id)
        handle  == IF known THEN containers[agent_id] ELSE CreatedHandle(daemon, agent_id)
        names   == NameOf(d1, handle)
    IN  [daemon      |-> IF names = {} THEN d1
                         ELSE Started(d1, CHOOSE n \in names : TRUE),
         containers  |-> Put(containers, agent_id, handle),
         container   |-> IF names = {} THEN 0 ELSE handle,
         provisioned |-> ~known /\ ContainerName(agent_id) \notin DOMAIN daemon]

Fresh(g) == IF g.provisioned THEN nextContainer + 1 ELSE nextContainer

\* write_file / exec_python / exec_shell as far as the environment goes:
\* the payload leaves the environment in a state of its choice
Operate(agent_id, state) ==
    LET g == GetContainer(agent_id)
    IN  /\ nextContainer <= MaxContainers
        /\ containers' = g.containers
        /\ nextContainer' = Fresh(g)
        /\ daemon' = IF g.container = 0 THEN g.daemon
                     ELSE [g.daemon EXCEPT ![CHOOSE n \in NameOf(g.daemon, g.container) : TRUE].state = state]
        /\ sm' = [NoManagerOp EXCEPT !.op = "operate", !.agent = agent_id,
                    !.result = IF g.container = 0 THEN "raised" ELSE "ok",
                    !.env = g.container, !.provisioned = g.provisioned]
        /\ UNCHANGED <<images, snapshots>>

\* snapshot: container.commit(repository=tag, tag="latest")
Snapshot(agent_id) ==
    LET g   == GetContainer(agent_id)
        tag == SnapshotTag(agent_id)
        now == g.daemon[CHOOSE n \in NameOf(g.daemon, g.container) : TRUE].state
    IN  /\ nextContainer <= MaxContainers
        /\ Cardinality(snapshots) < MaxSnapshots
        /\ containers' = g.containers
        /\ nextContainer' = Fresh(g)
        /\ daemon' = g.daemon
        /\ IF g.container = 0
           THEN /\ UNCHANGED <<images, snapshots>>
                /\ sm' = [NoManagerOp EXCEPT !.op = "snapshot", !.agent = agent_id,
                            !.result = "raised"]
           ELSE /\ images' = Put(images, tag, now)
                /\ snapshots' = snapshots \cup {[agent |-> agent_id, tag |-> tag, state |-> now]}
                /\ sm' = [NoManagerOp EXCEPT !.op = "snapshot", !.agent = agent_id,
                            !.result = "ok", !.env = g.container,
                            !.provisioned = g.provisioned, !.tag = tag, !.state = now]

\* destroy: stop and remove the container that _containers holds, and
\* forget it; both calls swallow their exceptions
Destroyed(d, c, agent_id) ==
    IF agent_id \in DOMAIN c
    THEN [daemon |-> [n \in DOMAIN d \ NameOf(d, c[agent_id]) |-> d[n]],
          containers |-> Remove(c, agent_id)]
    ELSE [daemon |-> d, containers |-> c]

Destroy(agent_id) ==
    LET x == Destroyed(daemon, containers, agent_id)
    IN  /\ daemon' = x.daemon
        /\ containers' = x.containers
        /\ sm' = [NoManagerOp EXCEPT !.op = "destroy", !.agent = agent_id, !.result = "ok"]
        /\ UNCHANGED <<images, nextContainer, snapshots>>

\* restore: destroy, then containers.run(image=image_tag, name=...), which
\* raises when the daemon has no such image or still has a container of
\* that name
Restore(agent_id, image_tag) ==
    LET x    == Destroyed(daemon, containers, agent_id)
        name == ContainerName(agent_id)
        runs == image_tag \in DOMAIN images /\ name \notin DOMAIN x.daemon
    IN  /\ nextContainer <= MaxContainers
        /\ daemon' = IF runs THEN Run(x.daemon, name, images[image_tag]) ELSE x.daemon
        /\ containers' = IF runs THEN Put(x.containers, agent_id, nextContainer)
                         ELSE x.containers
        /\ nextContainer' = IF runs THEN nextContainer + 1 ELSE nextContainer
        /\ sm' = [NoManagerOp EXCEPT !.op = "restore", !.agent = agent_id,
                    !.result = IF runs THEN "ok" ELSE "raised",
                    !.env = IF runs THEN nextContainer ELSE 0,
                    !.provisioned = runs, !.tag = image_tag,
                    !.state = IF runs THEN images[image_tag] ELSE "none"]
        /\ UNCHANGED <<images, snapshots>>

\* a container exits: the daemon keeps it, stopped, with its filesystem
Exited(name) ==
    /\ name \in DOMAIN daemon
    /\ daemon[name].status = "running"
    /\ daemon' = [daemon EXCEPT ![name].status = "exited"]
    /\ sm' = [NoManagerOp EXCEPT !.op = "exited"]
    /\ UNCHANGED <<images, containers, nextContainer, snapshots>>

----------------------------------------------------------------------------
(* exec_python and exec_shell with their timeout. exec_python runs two     *)
(* threads: the caller, blocked in exec_start until the payload ends, and  *)
(* the watchdog, which sleeps for the timeout, reloads the container and   *)
(* appends to timed_out_flag. Time is a clock that ticks between the       *)
(* threads' steps; the payload ends when it ends.                          *)

MaxTime == 3                    \* ticks of the clock over one call
Timeouts == {1, 2}              \* the timeout argument, in ticks

NoRun == [kind |-> "none", timeout |-> 0, now |-> 0, main |-> "idle", dog |-> "idle",
          ended_at |-> -1, timed_out_flag |-> <<>>, result |-> "none"]

InitWatchdog == run = NoRun

\* bool(timed_out_flag)
Bool(list) == list # <<>>

\* exec_python up to timer.start(); the next statement is exec_start
ExecPython(timeout) ==
    /\ run.main \in {"idle", "returned"}
    /\ run' = [NoRun EXCEPT !.kind = "python", !.timeout = timeout,
                            !.main = "exec_start", !.dog = "sleep"]

\* exec_shell up to container.exec_run; it starts no watchdog
ExecShell(timeout) ==
    /\ run.main \in {"idle", "returned"}
    /\ run' = [NoRun EXCEPT !.kind = "shell", !.timeout = timeout, !.main = "exec_run"]

\* time passes while the call is in progress
Tick ==
    /\ run.main \notin {"idle", "returned"}
    /\ run.now < MaxTime
    /\ run' = [run EXCEPT !.now = @ + 1]

\* the payload ends; exec_start / exec_run return and the caller goes on to
\* exec_inspect and the construction of the result
PayloadEnds ==
    /\ run.main \in {"exec_start", "exec_run"}
    /\ run' = [run EXCEPT !.ended_at = run.now, !.main = "result"]

\* ExecResult(..., timed_out=bool(timed_out_flag)) in exec_python;
\* ExecResult(...) with the default timed_out=False in exec_shell
ReturnResult ==
    /\ run.main = "result"
    /\ run' = [run EXCEPT !.main = "returned",
                          !.result = IF run.kind = "python"
                                     THEN [timed_out |-> Bool(run.timed_out_flag)]
                                     ELSE [timed_out |-> FALSE]]

\* watchdog: time.sleep(timeout) returns, not before the timeout elapsed
WatchdogWakes ==
    /\ run.dog = "sleep"
    /\ run.now >= run.timeout
    /\ run' = [run EXCEPT !.dog = "reload"]

\* watchdog: container.reload(), then timed_out_flag.append(True); an
\* exception of reload is swallowed and nothing is appended
WatchdogMarks(raised) ==
    /\ run.dog = "reload"
    /\ run' = [run EXCEPT !.dog = "done",
                          !.timed_out_flag = IF raised THEN @ ELSE Append(@, TRUE)]

----------------------------------------------------------------------------
(* EventBus: the bounded history of events and the handlers subscribed by  *)
(* type. An event is its number in the order of emission and its type; a   *)
(* handler is its name, and what it does is to note the history it sees.   *)

MaxHistory == 2                 \* the largest max_history a bus is built with
MaxEmits == 4                   \* emits into one bus
MaxCount == 3                   \* the largest n of a query
MaxSubscriptions == 1           \* handlers subscribed to one type
MaxFormed == 2                  \* alliances formed while membership is explored

EventTypes == {"t1", "t2"}
HandlerNames == {"h1"}

CivilizationEvent(id, event_type) == [id |-> id, event_type |-> event_type]

NoEventOp == [op |-> "none", emitted |-> 0, event_type |-> "none", n |-> 0,
              seen |-> <<>>, result |-> <<>>]

\* EventBus.__init__
NewEventBus(capacity) ==
    /\ history' = <<>>
    /\ max_history' = capacity
    /\ event_handlers' = [t \in EventTypes |-> <<>>]
    /\ evt' = NoEventOp

InitEvents ==
    /\ history = <<>>
    /\ max_history = MaxHistory
    /\ event_handlers = [t \in EventTypes |-> <<>>]
    /\ evt = NoEventOp

\* EventBus.on
On(event_type, handler) ==
    /\ Len(event_handlers[event_type]) < MaxSubscriptions
    /\ event_handlers' = [event_handlers EXCEPT ![event_type] = Append(@, handler)]
    /\ evt' = [NoEventOp EXCEPT !.op = "on", !.emitted = evt.emitted]
    /\ UNCHANGED <<history, max_history>>

\* list.remove: the first occurrence leaves
RemoveFirst(s, x) ==
    LET i == CHOOSE k \in 1 .. Len(s) : s[k] = x /\ \A j \in 1 .. k - 1 : s[j] # x
    IN  SubSeq(s, 1, i - 1) \o SubSeq(s, i + 1, Len(s))

\* EventBus.off
Off(event_type, handler) ==
    /\ event_handlers' = IF \E k \in 1 .. Len(event_handlers[event_type]) :
                              event_handlers[event_type][k] = handler
                         THEN [event_handlers EXCEPT ![event_type] = RemoveFirst(@, handler)]
                         ELSE event_handlers
    /\ evt' = [NoEventOp EXCEPT !.op = "off", !.emitted = evt.emitted]
    /\ UNCHANGED <<history, max_history>>

\* the history after emit's append and truncation
Recorded(h, event) ==
    LET appended == Append(h, event)
    IN  IF Len(appended) > max_history THEN SliceFrom(appended, -max_history)
        ELSE appended

\* self._handlers.get(event_type, [])
HandlersOf(event_type) ==
    IF event_type \in DOMAIN event_handlers THEN event_handlers[event_type] ELSE <<>>

\* EventBus.emit; seen is, for each handler called, in the order of the
\* calls, the handler and the history at its call
Emit(event_type) ==
    LET event == CivilizationEvent(evt.emitted + 1, event_type)
    IN  /\ evt.emitted < MaxEmits
        /\ history' = Recorded(history, event)
        /\ evt' = [NoEventOp EXCEPT
                     !.op = "emit", !.emitted = evt.emitted + 1, !.event_type = event_type,
                     !.seen = [k \in 1 .. Len(HandlersOf(event_type)) |->
                                  [handler |-> HandlersOf(event_type)[k],
                                   event |-> event, history |-> history']]]
        /\ UNCHANGED <<max_history, event_handlers>>

\* EventBus.get_recent_events
GetRecentEvents(n) ==
    /\ evt' = [NoEventOp EXCEPT !.op = "get_recent_events", !.emitted = evt.emitted,
                 !.n = n, !.result = SliceFrom(history, -n)]
    /\ UNCHANGED <<history, max_history, event_handlers>>

\* EventBus.get_events_by_type
GetEventsByType(event_type, n) ==
    LET matching == SelectSeq(history, LAMBDA e : e.event_type = event_type)
    IN  /\ evt' = [NoEventOp EXCEPT !.op = "get_events_by_type", !.emitted = evt.emitted,
                     !.event_type = event_type, !.n = n, !.result = SliceFrom(matching, -n)]
        /\ UNCHANGED <<history, max_history, event_handlers>>

----------------------------------------------------------------------------
(* ToolificationEngine._detect_sequence_patterns: the pairs of tool names  *)
(* that follow one another in an agent's successful records.               *)

\* the tool names whose calls are recorded before the log is analysed
SequenceNames == {"sandbox", "broadcast", "delegate_task"}

\* agent_records
AgentRecords(agent) == SelectSeq(execution_log, LAMBDA r : r.agent_id = agent /\ r.success)

\* the bigram of range(len(agent_records) - 1) at i (from 1)
Bigram(records, i) == <<records[i].tool_name, records[i + 1].tool_name>>

\* the test of bigram[0] != bigram[1] left out
CountsAny(bigram) == TRUE

\* if bigram[0] != bigram[1]
Counts(bigram) == bigram[1] # bigram[2]

\* the positions whose bigram is counted
Counted(records) ==
    SelectSeq([i \in 1 .. Len(records) - 1 |-> i], LAMBDA i : Counts(Bigram(records, i)))

\* bigram_counter[bigram]
BigramCount(records, bigram) ==
    Cardinality({i \in Elements(Counted(records)) : Bigram(records, i) = bigram})

\* the keys of bigram_counter in the order they were inserted
BigramKeys(records) ==
    LET counted == Counted(records)
        first == SelectSeq(counted,
                           LAMBDA i : \A j \in Elements(counted) :
                                          j < i => Bigram(records, j) # Bigram(records, i))
    IN  [k \in 1 .. Len(first) |-> Bigram(records, first[k])]

\* _build_candidate_from_sequence
SequenceCandidate(sequence, count, agent) ==
    [sequence |-> sequence, agent_id |-> agent, frequency |-> count]

\* _detect_sequence_patterns
DetectSequencePatterns(agent, threshold) ==
    LET agent_records == AgentRecords(agent)
        kept == SelectSeq(BigramKeys(agent_records),
                          LAMBDA b : BigramCount(agent_records, b) >= threshold)
    IN  IF Len(agent_records) < threshold * 2 THEN <<>>
        ELSE [k \in 1 .. Len(kept) |->
                 SequenceCandidate(kept[k], BigramCount(agent_records, kept[k]), agent)]

\* the engine's detection of sequences in the log there is
AnalyzeSequences(agent, threshold) ==
    /\ analysis.op = "none"
    /\ analysis' = [op |-> "detect_sequence_patterns", agent |-> agent, threshold |-> threshold,
                    candidates |-> DetectSequencePatterns(agent, threshold)]

----------------------------------------------------------------------------
vars == <<sandboxVars, registryVars, logVars, loopVars, restVars>>

Init == InitSandbox /\ InitRegistry /\ InitLoop /\ InitCivilization /\ InitMemory /\ InitAlliances /\ InitPersistence /\ InitConversation /\ InitTools /\ InitContainers /\ InitWatchdog /\ InitEvents
        /\ alliance_input = [caller |-> None, ids |-> {}]
        /\ InitToolification

\* The sandbox manager's file operations, on any path.
SbReadFile == \E path \in Paths : ReadFile(path) /\ UNCHANGED <<registryVars, logVars, loopVars, restVars>>

SbWriteFile ==
    \E path \in Paths, content \in Contents :
        WriteFile(path, content) /\ UNCHANGED <<registryVars, logVars, loopVars, restVars>>

SbListFiles == \E path \in Paths : ListFiles(path) /\ UNCHANGED <<registryVars, logVars, loopVars, restVars>>

NextSandbox == SbReadFile \/ SbWriteFile \/ SbListFiles

SpecSandbox == Init /\ [][NextSandbox]_vars

\* The registry's calls, by any requester.
RgRegister ==
    \E name \in ToolNames, scope \in {"shared", "private"}, owner \in Agents,
       source \in {"", "c1"} :
        Register(name, scope, owner, source) /\ UNCHANGED <<sandboxVars, logVars, loopVars, restVars>>

RgUpdate ==
    \E id \in 1..MaxToolId, updates \in Updates, requester \in Agents :
        Update(id, updates, requester) /\ UNCHANGED <<sandboxVars, logVars, loopVars, restVars>>

RgDelete ==
    \E id \in 1..MaxToolId, requester \in Agents :
        Delete(id, requester) /\ UNCHANGED <<sandboxVars, logVars, loopVars, restVars>>

NextRegistry == RgRegister \/ RgUpdate \/ RgDelete

SpecRegistry == Init /\ [][NextRegistry]_vars

\* The registry with its tools executed between the other calls. Who
\* registers, edits and deletes makes no difference to execute: the tools
\* are shared and one agent makes the calls.
ExRegister ==
    \E name \in ToolNames, source \in {"", "c1"} :
        Register(name, "shared", "a1", source)
            /\ UNCHANGED <<sandboxVars, logVars, loopVars, restVars>>

ExUpdate ==
    \E id \in 1..MaxToolId, updates \in Updates :
        Update(id, updates, "a1") /\ UNCHANGED <<sandboxVars, logVars, loopVars, restVars>>

ExDelete ==
    \E id \in 1..MaxToolId :
        Delete(id, "a1") /\ UNCHANGED <<sandboxVars, logVars, loopVars, restVars>>

ExExecute ==
    \E tool_name \in ExecNames, agent_id \in Agents, raised \in BOOLEAN :
        /\ tool_name \in DOMAIN handlers => Len(execution_log) < MaxLog
        /\ Execute(tool_name, agent_id, NoInput, raised)
        /\ UNCHANGED <<sandboxVars, loopVars, restVars>>

NextExecute == ExRegister \/ ExUpdate \/ ExDelete \/ ExExecute

SpecExecute == Init /\ [][NextExecute]_vars

\* The decision loop: a message to any agent, the gateway's responses,
\* and the tool calls the responses ask for.
LpProcessMessage ==
    \E agent \in Agents : ProcessMessage(agent) /\ UNCHANGED <<sandboxVars, registryRest, logVars, restVars>>

LpCreateMessage == CreateMessage /\ UNCHANGED <<sandboxVars, registryRest, logVars, restVars>>

LpCallTool ==
    \E tool_name \in CallNames, raised \in BOOLEAN :
        CallTool(tool_name, raised) /\ UNCHANGED <<sandboxVars, registryRest, logVars, restVars>>

LpDelegateTask ==
    \E target_id \in DelegateTargets :
        DelegateTask(target_id) /\ UNCHANGED <<sandboxVars, registryRest, logVars, restVars>>

LpBroadcast == Broadcast /\ UNCHANGED <<sandboxVars, registryRest, logVars, restVars>>

LpReturn == Return /\ UNCHANGED <<sandboxVars, registryRest, logVars, restVars>>

LpRaise == Raise /\ UNCHANGED <<sandboxVars, registryRest, logVars, restVars>>

Next ==
    \/ LpProcessMessage
    \/ LpCreateMessage
    \/ LpCallTool
    \/ LpDelegateTask
    \/ LpBroadcast
    \/ LpReturn
    \/ LpRaise

Spec == Init /\ [][Next]_vars

\* The create_agent tool
AgCreateAgent ==
    \E agent \in DOMAIN agent_states :
        ExecuteCreateAgent(agent) /\ UNCHANGED <<sandboxVars, registryVars, logVars, loopVars, memoryVars, allianceVars, toolificationVars, extVars>>

NextAgents == AgCreateAgent

SpecAgents == Init /\ [][NextAgents]_vars

\* AgentMemory
MmNewMemory ==
    \E window \in 0 .. MaxWindow, capacity \in 0 .. MaxCapacity :
        NewMemory(window, capacity)
            /\ UNCHANGED <<sandboxVars, registryVars, logVars, loopVars, civVars, allianceVars, toolificationVars, extVars>>

MmAddConversationTurn ==
    AddConversationTurn /\ UNCHANGED <<sandboxVars, registryVars, logVars, loopVars, civVars, allianceVars, toolificationVars, extVars>>

MmAddEpisodicMemory ==
    \E importance \in Importances :
        AddEpisodicMemory(importance)
            /\ UNCHANGED <<sandboxVars, registryVars, logVars, loopVars, civVars, allianceVars, toolificationVars, extVars>>

NextMemory == MmNewMemory \/ MmAddConversationTurn \/ MmAddEpisodicMemory

SpecMemory == Init /\ [][NextMemory]_vars

\* The create_agent, form_alliance and broadcast tools, called by the shell's
\* active agent or by the target a broadcast is waiting for
BcCreateAgent ==
    \E agent \in DOMAIN agent_states :
        /\ CanCall(agent)
        /\ Cardinality(DOMAIN agent_states) < MaxPopulation
        /\ ExecuteCreateAgent(agent)
        /\ UNCHANGED <<sandboxVars, registryVars, logVars, loopVars, memoryVars, allianceVars, toolificationVars, extVars>>

BcFormAlliance ==
    \E agent \in DOMAIN agent_states, name \in AllianceNames, ids \in SUBSET MemberIds :
        /\ CanCall(agent)
        /\ FormAlliance(agent, name, ids)
        /\ UNCHANGED <<sandboxVars, registryVars, logVars, loopVars, memoryVars, civVars, toolificationVars, extVars>>

BcBroadcast ==
    \E agent \in DOMAIN agent_states, alliance_name \in BroadcastNames :
        /\ CanCall(agent)
        /\ ExecuteBroadcast(agent, alliance_name)
        /\ UNCHANGED <<sandboxVars, registryVars, logVars, loopVars, memoryVars, civVars, toolificationVars, extVars>>

BcTargetDone ==
    \E raised \in BOOLEAN :
        TargetDone(raised) /\ UNCHANGED <<sandboxVars, registryVars, logVars, loopVars, memoryVars, civVars, toolificationVars, extVars>>

NextBroadcast == BcCreateAgent \/ BcFormAlliance \/ BcBroadcast \/ BcTargetDone

SpecBroadcast == Init /\ [][NextBroadcast]_vars

\* ToolificationEngine._extract_skeleton
SkExtractSkeleton ==
    \E t \in Templates :
        \E a1 \in Literals(t.kind1), b1 \in Literals(t.kind1),
           a2 \in Literals(t.kind2), b2 \in Literals(t.kind2) :
            /\ ExtractSkeletons(t, a1, a2, b1, b2)
            /\ UNCHANGED <<sandboxVars, registryVars, logVars, loopVars, civVars, memoryVars,
                           allianceVars, analysis, extVars>>

NextSkeleton == SkExtractSkeleton

SpecSkeleton == Init /\ [][NextSkeleton]_vars

\* ToolificationEngine._detect_code_patterns over the log registry.execute
\* has written
PtExecute ==
    \E call \in Calls, agent_id \in Agents :
        /\ analysis.op = "none"
        /\ Len(execution_log) < MaxRecords
        /\ Execute(call.tool_name, agent_id, call.tool_input, call.raised)
        /\ UNCHANGED <<sandboxVars, loopVars, restVars>>

PtDetectCodePatterns ==
    \E agent \in Agents, threshold \in 1 .. MaxThreshold :
        /\ Analyze(agent, threshold)
        /\ UNCHANGED <<sandboxVars, registryVars, logVars, loopVars, civVars, memoryVars,
                       allianceVars, sk, extVars>>

NextPatterns == PtExecute \/ PtDetectCodePatterns

SpecPatterns == Init /\ [][NextPatterns]_vars

\* The civilization saved and loaded between the calls that change what is
\* saved: tools registered, edited and deleted, agents created and evolved,
\* alliances formed.
PsRegister ==
    \E name \in ToolNames :
        Register(name, "shared", "a1", "c1")
            /\ UNCHANGED <<sandboxVars, logVars, loopVars, restVars>>

PsUpdate ==
    \E id \in 1 .. MaxToolId, updates \in {u \in Updates : DOMAIN u = {"name"}} :
        Update(id, updates, "a1") /\ UNCHANGED <<sandboxVars, logVars, loopVars, restVars>>

PsDelete ==
    \E id \in 1 .. MaxToolId :
        Delete(id, "a1") /\ UNCHANGED <<sandboxVars, logVars, loopVars, restVars>>

PsCreateAgent ==
    \E agent \in DOMAIN agent_states :
        /\ Cardinality(DOMAIN agent_states) < MaxSaved
        /\ ExecuteCreateAgent(agent)
        /\ CreatedProfile
        /\ UNCHANGED <<moreVars, sandboxVars, registryVars, logVars, loopVars, memoryVars, allianceVars,
                       toolificationVars, persist, convVars, toolVars>>

PsEvolve ==
    \E agent \in DOMAIN agent_states, new_role \in Roles,
       knowledge_key \in KnowledgeKeys, knowledge_value \in KnowledgeValues :
        /\ Evolve(agent, new_role, knowledge_key, knowledge_value)
        /\ UNCHANGED <<moreVars, sandboxVars, registryVars, logVars, loopVars, civVars, memoryVars,
                       allianceVars, toolificationVars, persist, convVars, toolVars>>

PsFormAlliance ==
    \E agent \in DOMAIN agent_states, ids \in SUBSET (1 .. MaxSaved) :
        /\ FormAlliance(agent, "n1", ids)
        /\ UNCHANGED <<sandboxVars, registryVars, logVars, loopVars, memoryVars, civVars,
                       toolificationVars, extVars>>

PsSaveAndLoad ==
    SaveAndLoad /\ UNCHANGED <<moreVars, sandboxVars, loopVars, memoryVars, toolificationVars, convVars, toolVars>>

NextPersistence ==
    \/ PsRegister
    \/ PsUpdate
    \/ PsDelete
    \/ PsCreateAgent
    \/ PsEvolve
    \/ PsFormAlliance
    \/ PsSaveAndLoad

SpecPersistence == Init /\ [][NextPersistence]_vars

\* Tools of either scope registered by either agent, and any tool name
\* executed on behalf of either agent (Agent._execute_tool passes the name
\* the response asks for to registry.execute).
ScRegister ==
    \E name \in ToolNames, scope \in {"shared", "private"}, owner \in Agents :
        Register(name, scope, owner, "c1")
            /\ UNCHANGED <<sandboxVars, logVars, loopVars, restVars>>

ScExecute ==
    \E tool_name \in ToolNames, agent_id \in Agents, raised \in BOOLEAN :
        /\ tool_name \in DOMAIN handlers => Len(execution_log) < MaxLog
        /\ Execute(tool_name, agent_id, NoInput, raised)
        /\ UNCHANGED <<sandboxVars, loopVars, restVars>>

NextScope == ScRegister \/ ScExecute

SpecScope == Init /\ [][NextScope]_vars

\* One process_message of a1, the gateway answering with any content and
\* stop reason, the handlers returning or raising.
CvProcessMessage ==
    ConvProcessMessage
        /\ UNCHANGED <<moreVars, sandboxVars, registryVars, logVars, stack, chain, last, civVars,
                       memoryVars, allianceVars, toolificationVars, persistVars, toolVars>>

CvCreateMessage ==
    ConvCreateMessage
        /\ UNCHANGED <<moreVars, sandboxVars, registryVars, logVars, stack, chain, last, civVars,
                       memoryVars, allianceVars, toolificationVars, persistVars, toolVars>>

CvExecuteTool ==
    \E raised \in BOOLEAN :
        ConvExecuteTool(raised)
            /\ UNCHANGED <<moreVars, sandboxVars, stack, chain, last, civVars,
                           memoryVars, allianceVars, toolificationVars, persistVars, toolVars>>

CvReturn ==
    ConvReturn
        /\ UNCHANGED <<moreVars, sandboxVars, registryVars, logVars, stack, chain, last, civVars,
                       memoryVars, allianceVars, toolificationVars, persistVars, toolVars>>

NextConversation == CvProcessMessage \/ CvCreateMessage \/ CvExecuteTool \/ CvReturn

SpecConversation == Init /\ [][NextConversation]_vars

\* The tool calls that change what get_available_tools gives, made by
\* either agent between the iterations of the loops.
TlCreateTool ==
    \E agent \in Agents, name \in ToolNames, scope \in {"shared", "private"} :
        /\ ExecuteCreateTool(agent, name, scope, "c1")
        /\ offered' = NoOffer
        /\ UNCHANGED <<moreVars, sandboxVars, logVars, loopVars, civVars, memoryVars, allianceVars,
                       toolificationVars, persistVars, convVars>>

TlEditTool ==
    \E agent \in Agents, tool_id \in 1 .. MaxToolId,
       updates \in {u \in Updates : DOMAIN u = {"name"}} :
        /\ ExecuteEditTool(agent, tool_id, updates)
        /\ offered' = NoOffer
        /\ UNCHANGED <<moreVars, sandboxVars, logVars, loopVars, civVars, memoryVars, allianceVars,
                       toolificationVars, persistVars, convVars>>

TlDeleteTool ==
    \E agent \in Agents, tool_id \in 1 .. MaxToolId :
        /\ ExecuteDeleteTool(agent, tool_id)
        /\ offered' = NoOffer
        /\ UNCHANGED <<moreVars, sandboxVars, logVars, loopVars, civVars, memoryVars, allianceVars,
                       toolificationVars, persistVars, convVars>>

TlCreateMessage ==
    \E agent \in Agents :
        /\ OfferTools(agent)
        /\ UNCHANGED <<moreVars, sandboxVars, logVars, loopVars, civVars, memoryVars, allianceVars,
                       toolificationVars, persistVars, convVars>>

NextTools == TlCreateTool \/ TlEditTool \/ TlDeleteTool \/ TlCreateMessage

SpecTools == Init /\ [][NextTools]_vars

\* The sandbox manager's container operations, for agent ids of which two
\* share their first 12 characters, and containers that exit on their own.
SmOperate ==
    \E agent_id \in AgentIds, state \in EnvStates :
        Operate(agent_id, state)
        /\ UNCHANGED <<sandboxVars, registryVars, logVars, loopVars, civVars, memoryVars,
                       allianceVars, toolificationVars, persistVars, convVars, toolVars, run, eventVars, alliance_input>>

SmSnapshot ==
    \E agent_id \in AgentIds :
        Snapshot(agent_id)
        /\ UNCHANGED <<sandboxVars, registryVars, logVars, loopVars, civVars, memoryVars,
                       allianceVars, toolificationVars, persistVars, convVars, toolVars, run, eventVars, alliance_input>>

SmRestore ==
    \E agent_id \in AgentIds, image_tag \in {s.tag : s \in snapshots} :
        Restore(agent_id, image_tag)
        /\ UNCHANGED <<sandboxVars, registryVars, logVars, loopVars, civVars, memoryVars,
                       allianceVars, toolificationVars, persistVars, convVars, toolVars, run, eventVars, alliance_input>>

SmDestroy ==
    \E agent_id \in AgentIds :
        Destroy(agent_id)
        /\ UNCHANGED <<sandboxVars, registryVars, logVars, loopVars, civVars, memoryVars,
                       allianceVars, toolificationVars, persistVars, convVars, toolVars, run, eventVars, alliance_input>>

SmExited ==
    \E name \in DOMAIN daemon :
        Exited(name)
        /\ UNCHANGED <<sandboxVars, registryVars, logVars, loopVars, civVars, memoryVars,
                       allianceVars, toolificationVars, persistVars, convVars, toolVars, run, eventVars, alliance_input>>

NextContainers == SmOperate \/ SmSnapshot \/ SmRestore \/ SmDestroy \/ SmExited

SpecContainers == Init /\ [][NextContainers]_vars

\* The same operations for agent ids that differ within their first 12
\* characters.
SnOperate ==
    \E agent_id \in DistinctIds, state \in EnvStates :
        Operate(agent_id, state)
        /\ UNCHANGED <<sandboxVars, registryVars, logVars, loopVars, civVars, memoryVars,
                       allianceVars, toolificationVars, persistVars, convVars, toolVars, run, eventVars, alliance_input>>

SnSnapshot ==
    \E agent_id \in DistinctIds :
        Snapshot(agent_id)
        /\ UNCHANGED <<sandboxVars, registryVars, logVars, loopVars, civVars, memoryVars,
                       allianceVars, toolificationVars, persistVars, convVars, toolVars, run, eventVars, alliance_input>>

SnRestore ==
    \E agent_id \in DistinctIds, image_tag \in {s.tag : s \in snapshots} :
        Restore(agent_id, image_tag)
        /\ UNCHANGED <<sandboxVars, registryVars, logVars, loopVars, civVars, memoryVars,
                       allianceVars, toolificationVars, persistVars, convVars, toolVars, run, eventVars, alliance_input>>

SnDestroy ==
    \E agent_id \in DistinctIds :
        Destroy(agent_id)
        /\ UNCHANGED <<sandboxVars, registryVars, logVars, loopVars, civVars, memoryVars,
                       allianceVars, toolificationVars, persistVars, convVars, toolVars, run, eventVars, alliance_input>>

SnExited ==
    \E name \in DOMAIN daemon :
        Exited(name)
        /\ UNCHANGED <<sandboxVars, registryVars, logVars, loopVars, civVars, memoryVars,
                       allianceVars, toolificationVars, persistVars, convVars, toolVars, run, eventVars, alliance_input>>

NextSnapshots == SnOperate \/ SnSnapshot \/ SnRestore \/ SnDestroy \/ SnExited

SpecSnapshots == Init /\ [][NextSnapshots]_vars

\* One exec_python or exec_shell call at a time, its two threads and the
\* clock interleaved in every order.
WdExecPython == \E timeout \in Timeouts : ExecPython(timeout) /\ UNCHANGED <<sandboxVars, registryVars, logVars, loopVars, civVars, memoryVars,
                       allianceVars, toolificationVars, persistVars, convVars, toolVars,
                       containerVars, eventVars, alliance_input>>

WdExecShell == \E timeout \in Timeouts : ExecShell(timeout) /\ UNCHANGED <<sandboxVars, registryVars, logVars, loopVars, civVars, memoryVars,
                       allianceVars, toolificationVars, persistVars, convVars, toolVars,
                       containerVars, eventVars, alliance_input>>

WdTick == Tick /\ UNCHANGED <<sandboxVars, registryVars, logVars, loopVars, civVars, memoryVars,
                       allianceVars, toolificationVars, persistVars, convVars, toolVars,
                       containerVars, eventVars, alliance_input>>

WdPayloadEnds == PayloadEnds /\ UNCHANGED <<sandboxVars, registryVars, logVars, loopVars, civVars, memoryVars,
                       allianceVars, toolificationVars, persistVars, convVars, toolVars,
                       containerVars, eventVars, alliance_input>>

WdReturnResult == ReturnResult /\ UNCHANGED <<sandboxVars, registryVars, logVars, loopVars, civVars, memoryVars,
                       allianceVars, toolificationVars, persistVars, convVars, toolVars,
                       containerVars, eventVars, alliance_input>>

WdWatchdogWakes == WatchdogWakes /\ UNCHANGED <<sandboxVars, registryVars, logVars, loopVars, civVars, memoryVars,
                       allianceVars, toolificationVars, persistVars, convVars, toolVars,
                       containerVars, eventVars, alliance_input>>

WdWatchdogMarks == \E raised \in BOOLEAN : WatchdogMarks(raised) /\ UNCHANGED <<sandboxVars, registryVars, logVars, loopVars, civVars, memoryVars,
                       allianceVars, toolificationVars, persistVars, convVars, toolVars,
                       containerVars, eventVars, alliance_input>>

NextWatchdog ==
    \/ WdExecPython
    \/ WdExecShell
    \/ WdTick
    \/ WdPayloadEnds
    \/ WdReturnResult
    \/ WdWatchdogWakes
    \/ WdWatchdogMarks

SpecWatchdog == Init /\ [][NextWatchdog]_vars

\* An event bus of any capacity, its subscriptions, emits and queries.
EvNewEventBus == \E capacity \in 0 .. MaxHistory : NewEventBus(capacity) /\ UNCHANGED <<sandboxVars, registryVars, logVars, loopVars, civVars, memoryVars,
                       allianceVars, toolificationVars, persistVars, convVars, toolVars,
                       containerVars, run, alliance_input>>

EvOn == \E event_type \in EventTypes, handler \in HandlerNames :
            On(event_type, handler) /\ UNCHANGED <<sandboxVars, registryVars, logVars, loopVars, civVars, memoryVars,
                       allianceVars, toolificationVars, persistVars, convVars, toolVars,
                       containerVars, run, alliance_input>>

EvOff == \E event_type \in EventTypes, handler \in HandlerNames :
             Off(event_type, handler) /\ UNCHANGED <<sandboxVars, registryVars, logVars, loopVars, civVars, memoryVars,
                       allianceVars, toolificationVars, persistVars, convVars, toolVars,
                       containerVars, run, alliance_input>>

EvEmit == \E event_type \in EventTypes : Emit(event_type) /\ UNCHANGED <<sandboxVars, registryVars, logVars, loopVars, civVars, memoryVars,
                       allianceVars, toolificationVars, persistVars, convVars, toolVars,
                       containerVars, run, alliance_input>>

EvGetRecentEvents == \E n \in 0 .. MaxCount : GetRecentEvents(n) /\ UNCHANGED <<sandboxVars, registryVars, logVars, loopVars, civVars, memoryVars,
                       allianceVars, toolificationVars, persistVars, convVars, toolVars,
                       containerVars, run, alliance_input>>

EvGetEventsByType ==
    \E event_type \in EventTypes, n \in 0 .. MaxCount :
        GetEventsByType(event_type, n) /\ UNCHANGED <<sandboxVars, registryVars, logVars, loopVars, civVars, memoryVars,
                       allianceVars, toolificationVars, persistVars, convVars, toolVars,
                       containerVars, run, alliance_input>>

NextEvents ==
    \/ EvNewEventBus
    \/ EvOn
    \/ EvOff
    \/ EvEmit
    \/ EvGetRecentEvents
    \/ EvGetEventsByType

SpecEvents == Init /\ [][NextEvents]_vars

\* Agents created and alliances formed by any of them, of any of the ids,
\* with the events the civilization emits for them.
AlCreateAgent ==
    \E agent \in DOMAIN agent_states :
        /\ Cardinality(DOMAIN agent_states) < MaxPopulation
        /\ ExecuteCreateAgent(agent)
        /\ CreatedProfile
        /\ IF civ'.result = "created" THEN Emit("agent_created") ELSE UNCHANGED eventVars
        /\ UNCHANGED <<sandboxVars, registryVars, logVars, loopVars, memoryVars,
                       toolificationVars, convVars, toolVars, containerVars, run,
                       allianceVars, persist, alliance_input>>

AlFormAlliance ==
    \E agent \in DOMAIN agent_states, ids \in SUBSET MemberIds :
        /\ Len(alliances) < MaxFormed
        /\ ExecuteFormAlliance(agent, "n1", ids)
        /\ IF bc'.result = "formed" THEN Emit("alliance_formed") ELSE UNCHANGED eventVars
        /\ alliance_input' = [caller |-> agent, ids |-> ids]
        /\ UNCHANGED <<sandboxVars, registryVars, logVars, loopVars, memoryVars,
                       toolificationVars, persistVars, convVars, toolVars, containerVars, run,
                       civVars>>

NextAlliances == AlCreateAgent \/ AlFormAlliance

SpecAlliances == Init /\ [][NextAlliances]_vars

\* Calls of three tools by either agent, recorded as they succeed or fail,
\* and then one detection of sequences for an agent and a threshold.
SqExecute ==
    \E tool_name \in SequenceNames, agent_id \in Agents, raised \in BOOLEAN :
        /\ analysis.op = "none"
        /\ Len(execution_log) < MaxRecords
        /\ Execute(tool_name, agent_id, NoInput, raised)
        /\ UNCHANGED <<sandboxVars, loopVars, restVars>>

SqDetectSequencePatterns ==
    \E agent \in Agents, threshold \in 1 .. MaxThreshold :
        /\ AnalyzeSequences(agent, threshold)
        /\ UNCHANGED <<sandboxVars, registryVars, logVars, loopVars, civVars, memoryVars,
                       allianceVars, sk, extVars>>

NextSequences == SqExecute \/ SqDetectSequencePatterns

SpecSequences == Init /\ [][NextSequences]_vars

\* The registry given names of any spelling: register and rename with a
\* well-formed name, the empty name and a name with a space in it.
NmRegister ==
    \E name \in AnyNames, scope \in {"shared", "private"}, owner \in Agents :
        Register(name, scope, owner, "c1") /\ UNCHANGED <<sandboxVars, logVars, loopVars, restVars>>

NmUpdate ==
    \E id \in 1 .. MaxToolId, name \in AnyNames, requester \in Agents :
        Update(id, [x \in {"name"} |-> name], requester)
            /\ UNCHANGED <<sandboxVars, logVars, loopVars, restVars>>

NmDelete ==
    \E id \in 1 .. MaxToolId, requester \in Agents :
        Delete(id, requester) /\ UNCHANGED <<sandboxVars, logVars, loopVars, restVars>>

NextNames == NmRegister \/ NmUpdate \/ NmDelete

SpecNames == Init /\ [][NextNames]_vars

----------------------------------------------------------------------------
(* Claims about the sandbox manager.                                       *)

\* C1: read, write and list accept a path exactly when it resolves to a
\* location inside /workspace, reject every other path with a permission
\* error, and touch no file outside /workspace.
C1_PathConfinement ==
    sbox.op # "none" =>
        /\ (sbox.result # "PermissionError") <=> sbox.inside
        /\ \A loc \in sbox.touched : InsideRoot(loc)

----------------------------------------------------------------------------
(* Claims about the tool registry.                                         *)

\* C2: no two stored tool definitions have the same name.
C2_NamesUnique ==
    \A i \in DOMAIN tools : \A j \in DOMAIN tools :
        tools[i].name = tools[j].name => i = j

\* A definition without its usage counter, which every execution counts up.
Definition(t) == [f \in DOMAIN t \ {"usage_count"} |-> t[f]]

\* C3: update and delete aimed at a built-in fail with a permission error
\* and leave definitions, name index and handlers as they were, and no
\* registry call changes or removes a built-in definition.
C3_BuiltinImmutable ==
    [][/\ \A id \in DOMAIN tools :
              tools[id].scope = "builtin" =>
                  /\ id \in DOMAIN tools'
                  /\ Definition(tools'[id]) = Definition(tools[id])
       /\ (reg'.op \in {"update", "delete"} /\ reg'.target = "builtin") =>
              /\ reg'.result = "PermissionError"
              /\ UNCHANGED <<tools, tools_by_name, handlers>>]_vars

\* C3 witness: a delete of a built-in was refused while a custom tool
\* carries a built-in's name.
C3_Witness ==
    /\ reg.op = "delete" /\ reg.target = "builtin" /\ reg.result = "PermissionError"
    /\ \E id \in DOMAIN tools :
           tools[id].scope # "builtin" /\ tools[id].name = "sandbox"

\* C4: update and delete of another agent's private tool fail with a
\* permission error and change nothing; update and delete of a shared tool
\* succeed for every requester.
C4_PrivateOwnerSharedAnyone ==
    [][reg'.op \in {"update", "delete"} =>
           /\ reg'.target = "other" =>
                  /\ reg'.result = "PermissionError"
                  /\ UNCHANGED <<tools, tools_by_name, handlers>>
           /\ reg'.target = "shared" => reg'.result = "ok"]_vars

----------------------------------------------------------------------------
(* Delegation.                                                             *)

\* The frames in flight form a chain of nested delegations through
\* pairwise distinct agents: a message to A1, then A1 -> A2 -> ... -> An.
DelegationPath ==
    /\ stack # <<>>
    /\ stack[1].via = "top"
    /\ \A i \in 2..Len(stack) : stack[i].via = "delegate"
    /\ \A i \in 1..Len(stack) : \A j \in 1..Len(stack) :
           stack[i].agent = stack[j].agent => i = j

InFlight == {stack[i].agent : i \in 1..Len(stack)}

\* C5: on a chain of nested delegations through pairwise distinct agents
\* A1 -> ... -> An, a delegate_task of An to an earlier agent Ai fails with
\* the cycle error and no process_message of Ai is entered.
C5_EarlierAgentNotReentered ==
    [][(/\ last'.ev = "delegate"
        /\ DelegationPath
        /\ \E i \in 1..(Len(stack) - 1) : stack[i].agent = last'.target)
       => (last'.result = "cycle" /\ Len(stack') = Len(stack))]_vars

\* C6: a delegate_task whose target has a process_message in flight on the
\* call stack, the caller's own included, fails with the cycle error.
C6_NoRecursionIntoInFlightAgent ==
    [][(last'.ev = "delegate" /\ last'.target \in InFlight)
       => last'.result = "cycle"]_vars

\* C7: when a delegation to T is over, by return or by exception, T's
\* chain is empty; an agent's chain is non-empty only while a delegation
\* to it is in flight; a delegate_task that is rejected, for a cycle, an
\* unknown target or a malformed input, changes no chain.
C7_ChainClearedAfterDelegation ==
    /\ [](\A a \in Agents :
             chain[a] # <<>> =>
                 \E i \in 1..Len(stack) : stack[i].agent = a /\ stack[i].via = "delegate")
    /\ [][/\ (last'.ev \in {"return", "raise"} /\ last'.target = "delegate")
             => chain'[last'.agent] = <<>>
          /\ (last'.ev = "delegate" /\ last'.result # "entered") => chain' = chain]_vars

\* A delegation has ended by an exception and the target's chain is empty.
C7_Witness ==
    /\ last.ev = "raise"
    /\ last.target = "delegate"
    /\ chain[last.agent] = <<>>
    /\ stack # <<>>

----------------------------------------------------------------------------
(* The decision loop.                                                      *)

\* The frame g is the frame f after one more tool call ended in an error
\* result: the result is kept for the conversation and the loop goes on
\* with the next call, the next iteration, or its end at the cap.
ErrorRecorded(f, g) ==
    /\ g.agent = f.agent
    /\ g.iteration = f.iteration
    /\ g.pending = f.pending - 1
    /\ IF g.pending > 0
       THEN g.pc = "tools" /\ g.tool_results = Append(f.tool_results, "error")
       ELSE /\ g.turn = Append(f.tool_results, "error")
            /\ g.pc = IF f.iteration < max_loop_iterations THEN "think" ELSE "exit"

\* C8: a tool call that fails (no handler for the name, an exception of
\* the handler, a delegation whose target raised) does not make
\* process_message raise: the failure becomes an error result of the
\* call, and the loop goes on with the remaining calls and iterations.
C8_ToolFailureNeverAborts ==
    [][/\ (last'.ev \in {"tool", "delegate"}
           /\ last'.result \in {"ValueError", "RuntimeError", "KeyError"})
          => /\ Len(stack') = Len(stack)
             /\ ErrorRecorded(Top, stack'[Len(stack')])
       /\ (last'.ev = "raise" /\ last'.target = "delegate")
          => /\ Len(stack') = Len(stack) - 1
             /\ ErrorRecorded(Caller, stack'[Len(stack')])]_vars

\* A call of a name without a handler has failed, its error result is
\* kept, and the next call of the same response is pending.
C8_Witness ==
    /\ last.ev = "tool"
    /\ last.result = "ValueError"
    /\ stack # <<>>
    /\ Top.pc = "tools"
    /\ Top.tool_results = <<"error">>

Counters == <<total_input_tokens, total_output_tokens, total_api_calls>>

----------------------------------------------------------------------------
(* The execution log.                                                      *)

\* The stored tools that carry a name.
ToolsNamed(name) == {id \in DOMAIN tools : tools[id].name = name}

\* C11: an execute of a name with a bound handler appends exactly one
\* record, whose success flag is false exactly when the handler raised and
\* the call then raises, and adds exactly 1 to the usage count of the tool
\* of that name and to nothing else; an execute of a name without a
\* handler fails with the lookup error and changes neither the log nor a
\* count; no call changes, reorders or removes an existing record.
C11_ExecuteRecordsAndCounts ==
    [][/\ Len(execution_log') >= Len(execution_log)
       /\ SubSeq(execution_log', 1, Len(execution_log)) = execution_log
       /\ reg'.op # "execute" => execution_log' = execution_log
       /\ reg'.op = "execute"
          => IF reg'.target \in DOMAIN handlers
             THEN /\ reg'.result \in {"ok", "RuntimeError"}
                  /\ execution_log' =
                         Append(execution_log,
                                execution_log'[Len(execution_log')])
                  /\ execution_log'[Len(execution_log')].tool_name = reg'.target
                  /\ execution_log'[Len(execution_log')].success = (reg'.result = "ok")
                  /\ DOMAIN tools' = DOMAIN tools
                  /\ \E id \in ToolsNamed(reg'.target) :
                         /\ tools'[id] = [tools[id] EXCEPT !.usage_count = @ + 1]
                         /\ \A other \in DOMAIN tools \ {id} : tools'[other] = tools[other]
             ELSE /\ reg'.result = "ValueError"
                  /\ UNCHANGED <<execution_log, tools>>]_vars

\* C12: a register of a name that a stored definition, built-in or
\* custom, already carries fails with the naming conflict, and a register
\* that fails leaves the definitions, the name index and the handlers as
\* they were, the rejected definition being stored under no id and no name.
C12_DuplicateRegisterRejected ==
    [][reg'.op = "register"
       => /\ reg'.result \in {"ok", "ValueError"}
          /\ reg'.result = "ValueError" => UNCHANGED <<tools, tools_by_name, handlers>>
          /\ reg'.result = "ok"
             => \A id \in DOMAIN tools' \ DOMAIN tools :
                    ToolsNamed(tools'[id].name) = {}]_vars

\* C13: an update that succeeds adds exactly 1 to the version of the tool
\* it targets, whatever fields it changes, and to no other version; a
\* definition enters the registry with version 1; an update that fails
\* leaves every version as it was.
C13_VersionPlusOne ==
    [][/\ \A id \in DOMAIN tools' \ DOMAIN tools : tools'[id].version = 1
       /\ reg'.op = "update"
          => /\ DOMAIN tools' = DOMAIN tools
             /\ IF reg'.result = "ok"
                THEN \E id \in DOMAIN tools :
                         /\ tools'[id].version = tools[id].version + 1
                         /\ \A other \in DOMAIN tools \ {id} :
                                tools'[other].version = tools[other].version
                ELSE \A id \in DOMAIN tools :
                         tools'[id].version = tools[id].version]_vars

----------------------------------------------------------------------------
(* The agent population.                                                   *)

Children(p, graph) == IF p \in DOMAIN graph THEN graph[p] ELSE <<>>

\* C14: every agent the create_agent tool creates for creator P has depth
\* P.depth + 1, has P as its creator and is appended to P's children in the
\* creation graph; a call by a creator whose depth has reached the maximum
\* fails and leaves the population and the creation graph unchanged; and
\* no agent's depth exceeds the maximum.
C14_CreateAgentStep ==
    civ' # civ =>
        LET P == civ'.creator
            B == civ'.new
        IN  /\ P \in DOMAIN agent_states
            /\ agent_states[P].depth >= max_agent_depth =>
                   /\ civ'.result # "created"
                   /\ agent_states' = agent_states
                   /\ creation_graph' = creation_graph
            /\ civ'.result = "created" =>
                   /\ B \notin DOMAIN agent_states
                   /\ DOMAIN agent_states' = DOMAIN agent_states \cup {B}
                   /\ agent_states'[B].depth = agent_states[P].depth + 1
                   /\ agent_states'[B].created_by = P
                   /\ Children(P, creation_graph') = Append(Children(P, creation_graph), B)
                   /\ \A q \in DOMAIN creation_graph' \ {P} :
                          q \in DOMAIN creation_graph /\ creation_graph'[q] = creation_graph[q]
                   /\ (agent_states[P].depth = 0 /\ Children(P, creation_graph) = <<>>) =>
                          agent_states'[B].depth = 1 /\ creation_graph'[P] = <<B>>
            /\ civ'.result # "created" =>
                   agent_states' = agent_states /\ creation_graph' = creation_graph

C14_DepthBounded == \A a \in DOMAIN agent_states : agent_states[a].depth <= max_agent_depth

\* C14: the depth bound on every agent and the property of every
\* create_agent call above, together.
C14_CreateAgent == []C14_DepthBounded /\ [][C14_CreateAgentStep]_vars

\* an agent at the maximum depth exists and its create_agent call was refused
C14_Witness ==
    /\ civ.result = "max_depth"
    /\ agent_states[civ.creator].depth = max_agent_depth
    /\ \E p \in DOMAIN creation_graph : Len(creation_graph[p]) >= 2

----------------------------------------------------------------------------
(* Agent memory.                                                           *)

\* C15: for every configured window and every sequence of appended turns,
\* an append that makes the conversation longer than 2 x window leaves
\* exactly the earliest 2 turns followed by the most recent `window` turns,
\* in their original order, window + 2 turns in all (h is the conversation
\* with the turn appended; it has the 2 earliest turns the claim speaks of).
C15_CompactedToWindow ==
    LET h == mem.before
        w == max_conversation_turns
    IN  (mem.op = "add_conversation_turn" /\ Len(h) > 2 * w /\ Len(h) >= 2) =>
            /\ Len(conversation_history) = w + 2
            /\ conversation_history = SubSeq(h, 1, 2) \o SubSeq(h, Len(h) - w + 1, Len(h))

\* C16: after an insert of an episodic memory at most `capacity` memories
\* are stored, and every entry the insert evicted has an importance no
\* higher than that of every entry it retained.
C16_LowestImportanceEvicted ==
    mem.op = "add_episodic_memory" =>
        /\ Len(episodic_memories) <= max_episodic_memories
        /\ Elements(episodic_memories) \cup mem.dropped = Elements(mem.before)
        /\ \A e \in mem.dropped : \A r \in Elements(episodic_memories) :
               e.importance <= r.importance

\* an insert evicted an older entry of strictly lower importance than one kept
C16_Witness ==
    /\ mem.op = "add_episodic_memory"
    /\ \E e \in mem.dropped : \E r \in Elements(episodic_memories) :
           e.importance < r.importance /\ e.id < mem.inserts

----------------------------------------------------------------------------
(* Broadcast.                                                              *)

\* the targets a broadcast of `caller` to the alliance `name` must reach
MembersOtherThan(k, caller) == Elements(alliances[k].agent_ids) \ {caller}

OncePerTarget(entered, expected) ==
    /\ Elements(entered) = expected
    /\ Len(entered) = Cardinality(expected)

\* C17: a broadcast of caller A to a named alliance calls process_message of
\* exactly the alliance's members other than A, each once, and of no other
\* agent; a target whose process_message fails is reported in the combined
\* result, and every remaining target is still processed and its response
\* collected.
C17_BroadcastReachesMembers ==
    /\ (bc.op = "broadcast" /\ Truthy(bc.name) /\ bc.result \in {"responses", "no targets"}) =>
           \E k \in 1 .. Len(alliances) :
               /\ alliances[k].name = bc.name
               /\ OncePerTarget(bc.entered, MembersOtherThan(k, bc.caller))
               /\ Len(bc.responses) = Len(bc.entered)
               /\ \A i \in 1 .. Len(bc.entered) :
                      /\ bc.responses[i].target = bc.entered[i]
                      /\ bc.responses[i].text \in {"response", "error"}
    /\ \A d \in 1 .. Len(broadcasts) :
           Truthy(broadcasts[d].name) =>
               \E k \in 1 .. Len(alliances) :
                   /\ alliances[k].name = broadcasts[d].name
                   /\ Elements(broadcasts[d].entered) \subseteq MembersOtherThan(k, broadcasts[d].caller)
                   /\ \A i, j \in 1 .. Len(broadcasts[d].entered) :
                          broadcasts[d].entered[i] = broadcasts[d].entered[j] => i = j
                   /\ Len(broadcasts[d].responses) = Len(broadcasts[d].entered) - 1

\* a broadcast by a member of an alliance of three: its first target failed,
\* and the second was still processed and answered
C17_Witness ==
    /\ bc.op = "broadcast" /\ Truthy(bc.name) /\ bc.result = "responses"
    /\ Len(bc.responses) = 2
    /\ bc.responses[1].text = "error"
    /\ bc.responses[2].text = "response"
    /\ alliances[1].created_by = bc.caller

----------------------------------------------------------------------------
(* The cycle error.                                                        *)

\* the agents whose process_message is in flight, the outermost first
AgentsInFlight == [i \in 1 .. Len(stack) |-> stack[i].agent]

\* C18: when a delegate_task is rejected for a cycle on a chain of nested
\* delegations A1 -> ... -> An, the error names the complete chain, the
\* rejected caller An included, followed by the rejected target.
C18_CycleErrorNamesWholeChain ==
    [][(last'.ev = "delegate" /\ last'.result = "cycle" /\ DelegationPath)
       => last'.text = Append(AgentsInFlight, last'.target)]_vars

----------------------------------------------------------------------------
(* Toolification.                                                          *)

Placeholder(kind) ==
    CASE kind = "dq" -> <<"\"", "<STR>", "\"">>
      [] kind = "sq" -> <<"'", "<STR>", "'">>
      [] kind = "num" -> <<"<NUM>">>
      [] kind = "ws" -> <<" ">>
      [] OTHER -> <<>>

\* the template with a placeholder for each literal and one space for each
\* run of whitespace
Normalized(t) ==
    LET text == t.pre \o Placeholder(t.kind1) \o t.mid \o Placeholder(t.kind2) \o t.post
    IN  [i \in 1 .. Len(text) |-> IF text[i] \in Whitespace THEN " " ELSE text[i]]

\* C20: two code payloads that differ only in the contents of their string
\* literals, the values of their numeric literals and their whitespace have
\* the same skeleton, in which every string literal is one string
\* placeholder and every numeric literal one number placeholder.
C20_LiteralsNormalized ==
    sk.op = "extract" =>
        /\ sk.skeleton_a = sk.skeleton_b
        /\ sk.skeleton_a = Normalized(sk.template)

\* the records of the analysed agent that are successful code executions
Relevant(r) ==
    /\ r.agent_id = analysis.agent
    /\ r.success
    /\ r.tool_name = "sandbox"
    /\ r.input_params.action = "exec_python"

Occurrences(skeleton) ==
    Cardinality({i \in 1 .. Len(execution_log) :
                     Relevant(execution_log[i]) /\ SkeletonOf(execution_log[i]) = skeleton})

CandidatesFor(skeleton) ==
    {k \in 1 .. Len(analysis.candidates) : analysis.candidates[k].skeleton = skeleton}

\* what the claim asks of the candidates for the skeletons in S
CandidatesMatch(S) ==
    /\ \A s \in S :
           IF Occurrences(s) >= analysis.threshold
           THEN /\ Cardinality(CandidatesFor(s)) = 1
                /\ \A k \in CandidatesFor(s) :
                       /\ analysis.candidates[k].frequency = Occurrences(s)
                       /\ Len(analysis.candidates[k].example_invocations) <= 3
           ELSE CandidatesFor(s) = {}
    /\ \A k \in 1 .. Len(analysis.candidates) :
           /\ analysis.candidates[k].skeleton \in S
           /\ \A i \in 1 .. Len(analysis.candidates[k].example_invocations) :
                  \E j \in 1 .. Len(execution_log) :
                      /\ Relevant(execution_log[j])
                      /\ execution_log[j].input_params = analysis.candidates[k].example_invocations[i]

SkeletonsOfLog ==
    {SkeletonOf(execution_log[i]) : i \in {j \in 1 .. Len(execution_log) : Relevant(execution_log[j])}}

\* C19: code-pattern detection for an agent returns exactly one candidate
\* for each distinct skeleton that occurs in at least threshold of the
\* agent's successful code-execution records, with the occurrence count as
\* its frequency and at most 3 example invocations, and no candidate for a
\* skeleton that occurs fewer times; records of other agents and failed
\* records do not contribute.
C19_OneCandidatePerSkeleton ==
    analysis.op = "detect_code_patterns" => CandidatesMatch(SkeletonsOfLog)

\* C19, amended: the same for each distinct non-empty skeleton; code that
\* is blank has the empty skeleton, which never gives a candidate.
C19_OneCandidatePerNonEmptySkeleton ==
    analysis.op = "detect_code_patterns" => CandidatesMatch(SkeletonsOfLog \ {<<>>})

\* two records of the agent with one skeleton gave one candidate, beside a
\* failed record and a record of another agent with the same code
C19_Witness ==
    /\ analysis.op = "detect_code_patterns"
    /\ analysis.threshold = 2
    /\ Len(analysis.candidates) = 1
    /\ analysis.candidates[1].frequency = 2
    /\ \E i, j \in 1 .. Len(execution_log) :
           /\ ~ execution_log[i].success
           /\ execution_log[j].agent_id # analysis.agent
           /\ SkeletonOf(execution_log[i]) = analysis.candidates[1].skeleton
           /\ SkeletonOf(execution_log[j]) = analysis.candidates[1].skeleton
           /\ execution_log[j].success /\ execution_log[j].tool_name = "sandbox"
           /\ execution_log[j].input_params.action = "exec_python"

\* C21: a save followed by a load of the saved id gives a civilization with
\* the same agents (count, role, knowledge, creator and depth), the same
\* alliances (count, names, members) and every custom tool that was
\* registered before, under its id and its name, with the same fields.
CustomTools == {id \in DOMAIN tools : tools[id].scope # "builtin"}

C21_SaveLoadStep ==
    persist'.saves = persist.saves + 1 =>
        /\ agent_states' = agent_states
        /\ role' = role
        /\ knowledge' = knowledge
        /\ alliances' = alliances
        /\ \A id \in CustomTools : id \in DOMAIN tools' /\ tools'[id] = tools[id]

\* C21: every save followed by a load gives back the civilization that
\* was saved, as stated above.
C21_SaveLoadRoundTrip == [][C21_SaveLoadStep]_vars

\* C22: a private tool's handler runs only for the agent that created the
\* tool: every recorded execution (a record is written exactly when the
\* handler ran) of a private tool's name was made on behalf of its creator.
C22_PrivateToolOnlyByCreator ==
    \A i \in 1 .. Len(execution_log) :
        LET record == execution_log[i]
        IN  \A id \in DOMAIN tools :
                tools[id].name = record.tool_name /\ tools[id].scope = "private"
                    => record.agent_id = tools[id].created_by_agent_id

\* C23: a delete that passes the permission checks (a shared tool, or the
\* requester's own private tool) returns the tool's name and removes the
\* definition, the index entry of its name and the handler of its name, so
\* that lookup by the id and by the name find nothing and execute of the
\* name is refused; every other definition, index entry and handler stays.
C23_DeleteStep ==
    (reg'.op = "delete" /\ reg'.target \in {"shared", "own"}) =>
        /\ reg'.result = "ok"
        /\ \E id \in DOMAIN tools :
               LET name == tools[id].name
               IN  /\ DOMAIN tools' = DOMAIN tools \ {id}
                   /\ \A other \in DOMAIN tools' : tools'[other] = tools[other]
                   /\ name \notin DOMAIN tools_by_name'
                   /\ name \notin DOMAIN handlers'
                   /\ \A n \in DOMAIN tools_by_name \ {name} :
                          n \in DOMAIN tools_by_name' /\ tools_by_name'[n] = tools_by_name[n]
                   /\ DOMAIN tools_by_name' \subseteq DOMAIN tools_by_name
                   /\ \A n \in DOMAIN handlers \ {name} :
                          n \in DOMAIN handlers' /\ handlers'[n] = handlers[n]
                   /\ DOMAIN handlers' \subseteq DOMAIN handlers

\* C23: every permitted delete returns the name and removes the
\* definition, its index entry and its handler, as stated above.
C23_PermittedDeleteRemoves == [][C23_DeleteStep]_vars

\* C24: no agent's decision loop is entered while a loop of the same agent
\* is in flight on the call stack, so the loops in flight are never more
\* than the agents.
C24_NoLoopReentered ==
    /\ \A i, j \in 1 .. Len(stack) : stack[i].agent = stack[j].agent => i = j
    /\ Len(stack) <= Cardinality(Agents)

\* The outcome of the tool call that ended last in the innermost loop: the
\* last of the results collected, or of the turn they were appended as.
LastOutcome ==
    IF Top.tool_results # <<>>
    THEN Top.tool_results[Len(Top.tool_results)]
    ELSE Top.turn[Len(Top.turn)]

\* C25: a tool call that fails at the tool level (a name without a handler,
\* a handler that raises, a rejected delegation cycle) leaves an outcome
\* marked as an error in the caller's conversation.
C25_FailedCallsMarked ==
    (/\ last.ev \in {"tool", "delegate"}
     /\ last.result \in {"ValueError", "RuntimeError", "KeyError", "cycle"})
        => LastOutcome = "error"

\* The status changes one step of the loop may make: Idle -> Thinking,
\* Thinking -> ExecutingTool, ExecutingTool -> Thinking, Thinking -> Idle,
\* anything -> Error, and Idle -> ExecutingTool for the create_message step
\* that sets Thinking and, on a response with tool use, ExecutingTool.
StatusSteps ==
    {<<"idle", "thinking">>, <<"thinking", "executing_tool">>,
     <<"executing_tool", "thinking">>, <<"thinking", "idle">>,
     <<"idle", "executing_tool">>}
        \cup {<<s, "error">> : s \in {"idle", "thinking", "executing_tool"}}

C26_Transition ==
    \A a \in Agents : status'[a] # status[a] => <<status[a], status'[a]>> \in StatusSteps

C26_EndedIdle ==
    (last.ev \in {"return", "raise"} /\ last.agent \notin InFlight)
        => status[last.agent] \in {"idle", "error"}

\* C26: over a process_message the status only moves Idle -> Thinking ->
\* (ExecutingTool -> Thinking)* -> Idle, or to Error, and once an
\* invocation has ended, by return or by failure, with no other invocation
\* of the agent in flight, the status is Idle or Error.
C26_StatusMachine == []C26_EndedIdle /\ [][C26_Transition]_vars

----------------------------------------------------------------------------
(* The conversation of one process_message.                                *)

\* The last turn of the messages holds one result for each call of the
\* last response, in the calls' order and with their ids.
ResultsOfLastResponse ==
    LET calls == ToolUses(loop.content)
        turn == messages[Len(messages)]
    IN  /\ turn.role = "user"
        /\ Len(turn.content) = Len(calls)
        /\ \A i \in 1 .. Len(calls) : turn.content[i].tool_use_id = calls[i].id

C27_ResponseStep ==
    loop'.iteration = loop.iteration + 1 =>
        IF ToolUses(loop'.content) = <<>>
        THEN loop'.pc = "exit" /\ loop'.final_text = ExtractText(loop'.content)
        ELSE loop'.pc = "tools" /\ loop'.pending = ToolUses(loop'.content)

C27_OutcomesAppended ==
    (/\ loop.pc \in {"think", "exit", "done"}
     /\ loop.iteration >= 1
     /\ ToolUses(loop.content) # <<>>) => ResultsOfLastResponse

\* C27: the loop ends at a response exactly when the response carries no
\* tool_use block, and then returns the response's text; the tool_use
\* blocks of a response are all executed and their results appended before
\* the next create_message or the return, whatever the stop reason.
C27_EndsExactlyWithoutToolUse == []C27_OutcomesAppended /\ [][C27_ResponseStep]_vars

\* C28: a process_message that has used up its iterations without a
\* response that ends the loop returns the text of its last response.
C28_CapReturnsLastText ==
    (/\ loop.returned
     /\ loop.iteration = max_loop_iterations
     /\ loop.stop_reason = "tool_use") => loop.final_text = ExtractText(loop.content)

\* One tool call of the response in flight ends: it is the first call not
\* yet answered, its result carries its id and joins the results after
\* those of the calls before it, and the turn of the results is appended
\* with the last call and not before.
C30_CallStep ==
    (loop.pc = "tools" /\ loop' # loop) =>
        LET calls == ToolUses(loop.content)
            k == Len(loop.tool_results) + 1
        IN  /\ k <= Len(calls)
            /\ loop'.iteration = loop.iteration
            /\ IF k < Len(calls)
               THEN /\ loop'.pc = "tools"
                    /\ Len(loop'.tool_results) = k
                    /\ SubSeq(loop'.tool_results, 1, k - 1) = loop.tool_results
                    /\ loop'.tool_results[k].tool_use_id = calls[k].id
                    /\ messages' = messages
               ELSE /\ loop'.pc \in {"think", "exit"}
                    /\ Len(messages') = Len(messages) + 1
                    /\ SubSeq(messages', 1, Len(messages)) = messages
                    /\ SubSeq(messages'[Len(messages')].content, 1, k - 1) = loop.tool_results

C30_CallsAnswered ==
    (/\ loop.pc \in {"think", "exit", "done"}
     /\ loop.iteration >= 1
     /\ ToolUses(loop.content) # <<>>)
        => /\ ResultsOfLastResponse
           /\ Len(messages) = 2 * loop.iteration + 1
           /\ messages[Len(messages) - 1] = Turn("assistant", loop.content)

\* C30: the calls c1..ck of a response are executed one at a time in the
\* order of the response, one turn holding exactly their k results, the
\* i-th with the id of ci, is appended, and the next create_message comes
\* only after that turn.
C30_CallsInOrderOneTurn == []C30_CallsAnswered /\ [][C30_CallStep]_vars

----------------------------------------------------------------------------
(* The tool list passed to the gateway.                                    *)

Listed == {offered.tools[i] : i \in 1 .. Len(offered.tools)}

ListedNames == {tools[id].name : id \in Listed}

----------------------------------------------------------------------------
(* Claims about the sandbox manager's containers.                          *)

\* C31: the image named by a tag that snapshot(agent) returned is
\* immutable: whenever restore(agent, tag) is called with a tag that a
\* snapshot of that agent returned, the restore provisions a fresh
\* environment whose state is the state that every such snapshot call saw
\* when it returned, whatever operations and further snapshots came in
\* between, and the agent is bound to that fresh environment alone.
C31_RestoreGivesSnapshotState ==
    sm.op = "restore" =>
        \A s \in snapshots :
            s.agent = sm.agent /\ s.tag = sm.tag =>
                /\ sm.result = "ok"
                /\ sm.state = s.state
                /\ sm.provisioned
                /\ sm.agent \in DOMAIN containers
                /\ containers[sm.agent] = sm.env
                /\ NameOf(daemon, sm.env) = {ContainerName(sm.agent)}
                /\ daemon[ContainerName(sm.agent)].state = s.state

\* C32: agents and environments correspond one to one: two distinct agent
\* ids that the manager holds a container for hold different containers;
\* the first operation for an agent id provisions its environment; every
\* later operation for that id runs in the container the manager already
\* holds for it, running, and provisions no other.
C32_Distinct ==
    \A a, b \in DOMAIN containers : a # b => containers[a] # containers[b]

C32_OperationStep ==
    sm'.op \in {"operate", "snapshot"} =>
        IF sm'.agent \in DOMAIN containers
        THEN /\ sm'.result = "ok"
             /\ ~sm'.provisioned
             /\ sm'.env = containers[sm'.agent]
             /\ containers'[sm'.agent] = containers[sm'.agent]
             /\ daemon'[CHOOSE n \in NameOf(daemon', sm'.env) : TRUE].status = "running"
        ELSE /\ sm'.result = "ok"
             /\ sm'.provisioned
             /\ sm'.env \notin {daemon[n].id : n \in DOMAIN daemon}
             /\ containers'[sm'.agent] = sm'.env

\* C32: agents and environments correspond one to one: the invariant and
\* the property of every operation above, together.
C32_OneEnvironmentPerAgent == []C32_Distinct /\ [][C32_OperationStep]_vars

\* C33: the timeout flag of the result of exec_python and exec_shell with
\* timeout t is true if the payload was still running when t had elapsed
\* and false if the payload ended before t had elapsed, in every
\* interleaving of the caller and the watchdog.
C33_TimeoutFlagTellsExpiry ==
    run.main = "returned" =>
        /\ run.ended_at > run.timeout => run.result.timed_out
        /\ run.ended_at < run.timeout => ~run.result.timed_out

----------------------------------------------------------------------------
(* Claims about the event bus.                                             *)

\* the last k elements of s, for 0 <= k <= Len(s)
LastOf(s, k) == SubSeq(s, Len(s) - k + 1, Len(s))

\* C34: after any sequence of emits into a bus of any capacity, the
\* history holds at most capacity events, and they are exactly the most
\* recently emitted ones in the order of emission; and every handler an
\* emit calls finds the emitted event recorded.
C34_HistoryIsLastCapacity ==
    /\ Len(history) = Min(evt.emitted, max_history)
    /\ \A i \in 1 .. Len(history) : history[i].id = evt.emitted - Len(history) + i
    /\ evt.op = "emit" =>
           \A k \in 1 .. Len(evt.seen) :
               max_history > 0 =>
                   /\ evt.seen[k].history # <<>>
                   /\ evt.seen[k].history[Len(evt.seen[k].history)] = evt.seen[k].event

\* C35: for every n >= 0, get_recent_events(n) returns exactly the last
\* min(n, k) of the k events of the history, and get_events_by_type(T, n)
\* exactly the last min(n, kT) of its kT events of type T, in the order of
\* emission and never more than n events.
C35_QueriesBoundedByCount ==
    /\ evt.op = "get_recent_events" =>
           /\ evt.result = LastOf(history, Min(evt.n, Len(history)))
           /\ Len(evt.result) <= evt.n
    /\ evt.op = "get_events_by_type" =>
           LET ofType == SelectSeq(history, LAMBDA e : e.event_type = evt.event_type)
           IN  /\ evt.result = LastOf(ofType, Min(evt.n, Len(ofType)))
               /\ Len(evt.result) <= evt.n

----------------------------------------------------------------------------
(* Claims about alliances.                                                 *)

\* the member ids of an alliance, as a set
Members(alliance) == {alliance.agent_ids[i] : i \in 1 .. Len(alliance.agent_ids)}

\* C36: every alliance the civilization stores has its creator among its
\* members and lists only ids of existing agents, each once. A
\* form_alliance whose ids, with the caller's own, all name agents stores
\* an alliance of exactly those members, created by the caller, and emits
\* one alliance_formed event, whatever alliances the members are in
\* already; a form_alliance naming an id of no agent fails, stores no
\* alliance and emits no event.
C36_StoredAlliances ==
    \A i \in 1 .. Len(alliances) :
        /\ alliances[i].created_by \in Members(alliances[i])
        /\ Members(alliances[i]) \subseteq DOMAIN agent_states
        /\ Cardinality(Members(alliances[i])) = Len(alliances[i].agent_ids)

C36_FormStep ==
    alliances' # alliances \/ alliance_input' # alliance_input =>
        LET caller == alliance_input'.caller
            asked  == alliance_input'.ids \cup {caller}
        IN  IF asked \subseteq DOMAIN agent_states
            THEN /\ bc'.result = "formed"
                 /\ Len(alliances') = Len(alliances) + 1
                 /\ SubSeq(alliances', 1, Len(alliances)) = alliances
                 /\ Members(alliances'[Len(alliances')]) = asked
                 /\ alliances'[Len(alliances')].created_by = caller
                 /\ evt'.emitted = evt.emitted + 1
                 /\ evt'.event_type = "alliance_formed"
                 /\ history' # history
            ELSE /\ bc'.result = "no agent"
                 /\ alliances' = alliances
                 /\ UNCHANGED eventVars

\* C36: every stored alliance has its creator among its members and only
\* existing agents, and every form_alliance stores or fails as stated above.
C36_AlliancesOfExistingAgents == []C36_StoredAlliances /\ [][C36_FormStep]_vars

\* the second alliance is formed by an agent that did not name itself, with
\* a member of the first alliance among those it named
C36_Witness ==
    /\ Len(alliances) = 2
    /\ bc.result = "formed"
    /\ alliance_input.caller \notin alliance_input.ids
    /\ alliance_input.ids # {}
    /\ alliances[1].created_by # alliances[2].created_by
    /\ Members(alliances[1]) \cap Members(alliances[2]) # {}

----------------------------------------------------------------------------
(* Claims about the detection of sequences.                                *)

\* the successful records of the analysed agent, in the order of the log
SuccessesAnalysed ==
    SelectSeq(execution_log, LAMBDA r : r.agent_id = analysis.agent /\ r.success)

\* how often b follows a in them
Follows(a, b) ==
    Cardinality({i \in 1 .. Len(SuccessesAnalysed) - 1 :
                     /\ SuccessesAnalysed[i].tool_name = a
                     /\ SuccessesAnalysed[i + 1].tool_name = b})

CandidatesOfPair(a, b) ==
    {k \in 1 .. Len(analysis.candidates) : analysis.candidates[k].sequence = <<a, b>>}

\* C37: the detection of sequences for an agent returns no candidate when
\* the agent has fewer than 2 x threshold successful records; otherwise it
\* returns exactly one candidate for each ordered pair (a, b) of distinct
\* tool names that occurs as consecutive successful records of that agent
\* at least threshold times, its frequency that number of occurrences, and
\* no candidate for a pair with a = b or with fewer occurrences.
C37_OneCandidatePerFrequentPair ==
    analysis.op = "detect_sequence_patterns" =>
        IF Len(SuccessesAnalysed) < 2 * analysis.threshold
        THEN analysis.candidates = <<>>
        ELSE /\ \A a, b \in SequenceNames :
                    IF a # b /\ Follows(a, b) >= analysis.threshold
                    THEN /\ Cardinality(CandidatesOfPair(a, b)) = 1
                         /\ \A k \in CandidatesOfPair(a, b) :
                                /\ analysis.candidates[k].frequency = Follows(a, b)
                                /\ analysis.candidates[k].agent_id = analysis.agent
                    ELSE CandidatesOfPair(a, b) = {}
             /\ \A k \in 1 .. Len(analysis.candidates) :
                    analysis.candidates[k].sequence \in SequenceNames \X SequenceNames

\* a detection with threshold 2 that returns a pair found twice, and none
\* for the pair found once
C37_Witness ==
    /\ analysis.op = "detect_sequence_patterns"
    /\ analysis.threshold = 2
    /\ Len(analysis.candidates) = 1
    /\ analysis.candidates[1].frequency = 2
    /\ \E a, b \in SequenceNames : a # b /\ Follows(a, b) = 1

----------------------------------------------------------------------------
(* Claims about tool names.                                                *)

NamePatternMax == 64

NamePatternChars ==
    {"a", "b", "c", "d", "e", "f", "g", "h", "i", "j", "k", "l", "m", "n", "o", "p", "q",
     "r", "s", "t", "u", "v", "w", "x", "y", "z", "0", "1", "2", "3", "4", "5", "6", "7",
     "8", "9", "_", "-"}

\* the characters of the names the registry is given
Spelling ==
    ("t1" :> <<"t", "1">>) @@ ("" :> <<>>) @@ ("a b" :> <<"a", " ", "b">>)
    @@ ("sandbox" :> <<"s", "a", "n", "d", "b", "o", "x">>)
    @@ ("broadcast" :> <<"b", "r", "o", "a", "d", "c", "a", "s", "t">>)
    @@ ("delegate_task" :>
            <<"d", "e", "l", "e", "g", "a", "t", "e", "_", "t", "a", "s", "k">>)

\* ^[a-zA-Z0-9_-]{1,64}$
MatchesNamePattern(name) ==
    /\ Len(Spelling[name]) \in 1 .. NamePatternMax
    /\ \A i \in 1 .. Len(Spelling[name]) : Spelling[name][i] \in NamePatternChars

\* C38: every definition the registry stores has a name that matches the
\* name pattern (1 to 64 characters, each alphanumeric, a hyphen or an
\* underscore); a register of, or a rename to, a name that does not match
\* is rejected and leaves the registry unchanged.
C38_NamesMatch ==
    \A id \in DOMAIN tools : MatchesNamePattern(tools[id].name)

C38_RejectStep ==
    /\ \A id \in DOMAIN tools' \ DOMAIN tools : MatchesNamePattern(tools'[id].name)
    /\ \A name \in DOMAIN tools_by_name' \ DOMAIN tools_by_name : MatchesNamePattern(name)
    /\ \A id \in DOMAIN tools \cap DOMAIN tools' :
           tools'[id].name # tools[id].name => MatchesNamePattern(tools'[id].name)

\* C38: every stored name matches the name pattern, and no call stores a
\* definition or an index entry under a name that does not.
C38_StoredNamesMatchPattern == []C38_NamesMatch /\ [][C38_RejectStep]_vars

\* C39: every built-in name always resolves to the built-in: after any
\* register, update and delete calls by any requesters, the name index
\* gives each built-in name its built-in definition and the handler bound
\* to the name is the built-in's native handler.
C39_BuiltinNamesResolve ==
    \A i \in BuiltinIds :
        /\ BuiltinNames[i] \in DOMAIN tools_by_name
        /\ tools_by_name[BuiltinNames[i]] = i
        /\ BuiltinNames[i] \in DOMAIN handlers
        /\ handlers[BuiltinNames[i]] = [kind |-> "builtin", tool |-> i]

\* how often an id is in an agent's tool_ids
TimesListed(agent, id) == Cardinality({i \in 1 .. Len(tool_ids[agent]) : tool_ids[agent][i] = id})

\* C40: every id in any agent's tool_ids names a definition the registry
\* stores: after any create_tool, edit_tool and delete_tool calls by any
\* agents, no agent's list holds the id of a deleted tool, and the id of
\* each created tool the registry stores is in its creator's list exactly
\* once.
C40_OwnedToolsExist ==
    /\ \A agent \in Agents :
           \A i \in 1 .. Len(tool_ids[agent]) : tool_ids[agent][i] \in DOMAIN tools
    /\ \A id \in DOMAIN tools :
           tools[id].scope # "builtin" => TimesListed(tools[id].created_by_agent_id, id) = 1

====
